---------------------------- MODULE Spec2Model ----------------------------
(***************************************************************************)
(* Verification model of the facility-locator dashboard (src/app.py) and   *)
(* its static generator (src/generate_map.py).                             *)
(*                                                                         *)
(* Part 1: the isochrone cache store.  Every browser session owns          *)
(* st.session_state (one in-memory cache per session); all sessions of     *)
(* the process share the file isochrone_cache.json.  The file is modelled  *)
(* by its text (a sequence of JSON tokens), so that json.dump and          *)
(* json.load are real conversions.                                         *)
(***************************************************************************)
EXTENDS Integers, Sequences, FiniteSets, TLC

VARIABLES
    disk,      \* isochrone_cache.json: [exists, text]
    token,     \* TRUE iff MAPBOX_TOKEN is a non-empty string
    live,      \* sessions whose st.session_state holds 'isochrone_cache'
    mem,       \* mem[s]: st.session_state.isochrone_cache of session s
    lk,        \* lk[s]: the get_isochrone call in progress in session s
    last,      \* the last operation and what it returned
    files,     \* the optional input files present next to the scripts
    gm,        \* the run of generate_map.py
    app,       \* the dashboard's render of the map layers
    df,        \* st.session_state.df, the session's establishment table
    uploaded,  \* the file held by the st.file_uploader widget
    shown,     \* what the last script run showed for the upload, and its end
    rows,      \* the rows of the establishment table a rendering starts from
    rendered,  \* the rows a rendering shows
    arg,       \* the input handed to the function under study
    ret,       \* what the function returned
    heap       \* the geojson objects in memory, by reference

cacheVars == <<disk, token, live, mem, lk, last>>

pipelineVars == <<files, gm, app>>

uploadVars == <<df, uploaded, shown>>

dataVars == <<rows, rendered, arg, ret, heap>>

vars == <<cacheVars, pipelineVars, uploadVars, dataVars>>

----------------------------------------------------------------------------
(* Bounds and program constants *)

NKeys == 2              \* distinct cache keys looked up
max_retries == 3        \* get_isochrone(..., max_retries=3)

\* Two browser sessions of the one Streamlit process.
Sessions == {"A", "B"}

\* cache_key = f"{lat:.6f}_{lng:.6f}_{time_seconds}_{profile}"
AllKeys == << "48.850000_2.350000_600_driving-car",
              "43.300000_5.400000_900_foot-walking",
              "45.750000_4.850000_600_driving-car",
              "47.200000_-1.550000_1800_driving-car" >>

Keys == { AllKeys[i] : i \in 1..NKeys }

\* features[0]['geometry']['coordinates'] of a Polygon: rings of [lng, lat]
\* points (coordinates in whole units).  The polygons the service may
\* answer for key k: two different ones for the first key (its data changed
\* between two requests), one for each other key.
CoordsFor(k) ==
    IF k = AllKeys[1]
    THEN { << << <<2, 48>>, <<3, 49>> >> >>, << << <<2, 48>>, <<13, 50>> >> >> }
    ELSE IF k = AllKeys[2] THEN { << << <<-5, 43>> >>, << <<6, 44>> >> >> }
    ELSE IF k = AllKeys[3] THEN { << << <<4, 45>>, <<5, 46>>, <<4, 45>> >> >> }
    ELSE { << << <<-2, 47>>, <<-1, 47>> >> >> }

EmptyCache == [k \in {} |-> <<>>]

Caches ==
    { c \in UNION { [D -> UNION { CoordsFor(k) : k \in Keys }] : D \in SUBSET Keys } :
        \A k \in DOMAIN c : c[k] \in CoordsFor(k) }

----------------------------------------------------------------------------
(* json.dump: Python value -> text *)

Digit == <<"0", "1", "2", "3", "4", "5", "6", "7", "8", "9">>

Punct == {"{", "}", "[", "]", ",", ":", "-"}

RECURSIVE DumpNat(_)
DumpNat(n) ==
    IF n < 10 THEN <<Digit[n + 1]>>
    ELSE DumpNat(n \div 10) \o <<Digit[(n % 10) + 1]>>

DumpNum(n) == IF n < 0 THEN <<"-">> \o DumpNat(-n) ELSE DumpNat(n)

\* A list of numbers (a point), of points (a ring), of rings (coordinates).
RECURSIVE DumpItems(_, _)
DumpItems(xs, depth) ==
    IF xs = <<>> THEN <<>>
    ELSE LET head == IF depth = 1 THEN DumpNum(xs[1])
                     ELSE <<"[">> \o DumpItems(xs[1], depth - 1) \o <<"]">>
         IN  IF Len(xs) = 1 THEN head
             ELSE head \o <<",">> \o DumpItems(Tail(xs), depth)

DumpCoords(c) == <<"[">> \o DumpItems(c, 3) \o <<"]">>

\* The members of the object, in the order of the dict (here: key order).
RECURSIVE DumpMembers(_, _)
DumpMembers(cache, i) ==
    IF i > Len(AllKeys) THEN <<>>
    ELSE LET k == AllKeys[i]
             rest == DumpMembers(cache, i + 1)
         IN  IF k \notin DOMAIN cache THEN rest
             ELSE <<k, ":">> \o DumpCoords(cache[k])
                  \o (IF rest = <<>> THEN <<>> ELSE <<",">> \o rest)

\* Mutant: the end of the document never reaches the file.
json_dump_unfinished(cache) == <<"{">> \o DumpMembers(cache, 1)

json_dump(cache) == <<"{">> \o DumpMembers(cache, 1) \o <<"}">>

----------------------------------------------------------------------------
(* json.load: text -> Python value, or a parse error *)

IsDigit(t) == \E d \in 1..10 : Digit[d] = t

DigitVal(t) == (CHOOSE d \in 1..10 : Digit[d] = t) - 1

IsString(t) == t \notin Punct /\ ~IsDigit(t)

Fail == [ok |-> FALSE, val |-> <<>>, next |-> 0]

At(toks, i) == IF i >= 1 /\ i <= Len(toks) THEN toks[i] ELSE "<eof>"

RECURSIVE LoadDigits(_, _, _)
LoadDigits(toks, i, acc) ==
    IF IsDigit(At(toks, i))
    THEN LoadDigits(toks, i + 1, acc * 10 + DigitVal(toks[i]))
    ELSE [ok |-> TRUE, val |-> acc, next |-> i]

LoadNum(toks, i) ==
    IF At(toks, i) = "-"
    THEN IF IsDigit(At(toks, i + 1))
         THEN LET r == LoadDigits(toks, i + 1, 0)
              IN  [ok |-> TRUE, val |-> -r.val, next |-> r.next]
         ELSE Fail
    ELSE IF IsDigit(At(toks, i)) THEN LoadDigits(toks, i, 0) ELSE Fail

\* A value of nesting depth `depth` starting at token i (depth 0: a number).
RECURSIVE LoadValue(_, _, _)
RECURSIVE LoadItems(_, _, _, _)
LoadItems(toks, i, depth, acc) ==
    LET r == LoadValue(toks, i, depth)
    IN  IF ~r.ok THEN Fail
        ELSE IF At(toks, r.next) = ","
             THEN LoadItems(toks, r.next + 1, depth, Append(acc, r.val))
        ELSE IF At(toks, r.next) = "]"
             THEN [ok |-> TRUE, val |-> Append(acc, r.val), next |-> r.next + 1]
        ELSE Fail

LoadValue(toks, i, depth) ==
    IF depth = 0 THEN LoadNum(toks, i)
    ELSE IF At(toks, i) # "[" THEN Fail
    ELSE IF At(toks, i + 1) = "]"
         THEN [ok |-> TRUE, val |-> <<>>, next |-> i + 2]
    ELSE LoadItems(toks, i + 1, depth - 1, <<>>)

RECURSIVE LoadMembers(_, _, _)
LoadMembers(toks, i, acc) ==
    IF ~IsString(At(toks, i)) \/ At(toks, i) = "<eof>" \/ At(toks, i + 1) # ":"
    THEN Fail
    ELSE LET r == LoadValue(toks, i + 2, 3)
             k == toks[i]
             acc2 == [x \in DOMAIN acc \cup {k} |->
                         IF x = k THEN r.val ELSE acc[x]]
         IN  IF ~r.ok THEN Fail
             ELSE IF At(toks, r.next) = ","
                  THEN LoadMembers(toks, r.next + 1, acc2)
             ELSE IF At(toks, r.next) = "}"
                  THEN [ok |-> TRUE, val |-> acc2, next |-> r.next + 1]
             ELSE Fail

\* The whole document: one object, and nothing after it.
json_load(toks) ==
    LET r == IF At(toks, 1) # "{" THEN Fail
             ELSE IF At(toks, 2) = "}"
                  THEN [ok |-> TRUE, val |-> EmptyCache, next |-> 3]
             ELSE LoadMembers(toks, 2, EmptyCache)
    IN  IF r.ok /\ r.next = Len(toks) + 1 THEN r ELSE Fail

----------------------------------------------------------------------------
(* load_isochrone_cache / save_isochrone_cache *)

NoFile == [exists |-> FALSE, text |-> <<>>]

File(text) == [exists |-> TRUE, text |-> text]

\* Mutant: json.load outside the try.
LoadFrom_no_try(f) ==
    IF f.exists
    THEN LET r == json_load(f.text)
         IN  IF r.ok THEN [raised |-> FALSE, val |-> r.val]
             ELSE [raised |-> TRUE, val |-> EmptyCache]
    ELSE [raised |-> FALSE, val |-> EmptyCache]

\* load_isochrone_cache() on file f: whether it raises, and what it returns.
LoadFrom(f) ==
    IF f.exists
    THEN LET r == json_load(f.text)
         IN  IF r.ok THEN [raised |-> FALSE, val |-> r.val]
             ELSE [raised |-> FALSE, val |-> EmptyCache]  \* except Exception: return {}
    ELSE [raised |-> FALSE, val |-> EmptyCache]

load_isochrone_cache == LoadFrom(disk)

\* open(..., 'w') raised: the file is as it was.  A later write, flush or
\* fsync raised: the file was truncated by open and holds what was written.
FailedWrites(text) ==
    { disk, File(<<>>), File(SubSeq(text, 1, 1)) }

\* Mutant: True is returned whether or not the write went through.
save_isochrone_cache_unchecked(cache) ==
    { [ok |-> TRUE, file |-> f] :
        f \in {File(json_dump(cache))} \cup FailedWrites(json_dump(cache)) }

\* The outcomes of save_isochrone_cache(cache): the value returned and the file.
save_isochrone_cache(cache) ==
    { [ok |-> TRUE, file |-> File(json_dump(cache))] }
    \cup { [ok |-> FALSE, file |-> f] : f \in FailedWrites(json_dump(cache)) }



----------------------------------------------------------------------------
(* The state machine of the cache store *)

Idle == [run |-> FALSE, key |-> "", attempt |-> 0, calls |-> 0]

\* What the last operation was and what it produced.
Event(op, s, key, resp, calls, wait, saved, found, val) ==
    [op |-> op, s |-> s, key |-> key, resp |-> resp, calls |-> calls,
     wait |-> wait, saved |-> saved, found |-> found, val |-> val]

Quiet(op, s) == Event(op, s, "", "", 0, 0, FALSE, FALSE, <<>>)

\* An uncaught exception ends the script run of session s.
Crash(s) ==
    /\ last' = Quiet("crash", s)
    /\ UNCHANGED <<disk, token, live, mem, lk, pipelineVars, uploadVars, dataVars>>

\* The files the repository may ship or a previous run may have left:
\* none, an unparsable one, or a saved cache.
InitialFiles ==
    { NoFile, File(<<>>), File(<<"{", AllKeys[1], ":">>) }
    \cup { File(json_dump(c)) : c \in Caches }

InitCache ==
    /\ disk \in InitialFiles
    /\ live = {}
    /\ mem = [s \in Sessions |-> EmptyCache]
    /\ lk = [s \in Sessions |-> Idle]
    /\ last = Quiet("init", "")

\* app.py 844-846: the first run of a session.
StartSession(s) ==
    /\ s \notin live
    /\ LET r == load_isochrone_cache
       IN  IF r.raised THEN Crash(s)
           ELSE /\ live' = live \cup {s}
                /\ mem' = [mem EXCEPT ![s] = r.val]
                /\ last' = IF last.op = "restart_after_put"
                           THEN [last EXCEPT !.op = "start_after_put", !.s = s]
                           ELSE Quiet("start", s)
                /\ UNCHANGED <<disk, token, lk, pipelineVars, uploadVars, dataVars>>

\* Mutant: the disk copy is taken whenever the counts differ.
SyncBranch_reload_differs(memory_count, disk_count) ==
    IF memory_count # disk_count THEN "reload" ELSE "none"

\* Mutant: memory is saved on equal counts too.
SyncBranch_ge(memory_count, disk_count) ==
    IF memory_count >= disk_count THEN "save"
    ELSE IF disk_count > memory_count THEN "reload"
    ELSE "none"

\* app.py 853/859: the branch taken, from the two counts.
SyncBranch(memory_count, disk_count) ==
    IF memory_count > disk_count THEN "save"
    ELSE IF disk_count > memory_count THEN "reload"
    ELSE "none"

\* app.py 847-862: the outcomes of the reconciliation of the session cache
\* m at the top of a later run: [mem, file, op].
Sync(m) ==
    LET disk_cache == load_isochrone_cache.val
        branch == SyncBranch(Cardinality(DOMAIN m), Cardinality(DOMAIN disk_cache))
    IN  IF branch = "save"
        THEN { [mem |-> m, file |-> r.file,
                op |-> IF r.ok THEN "synced" ELSE "sync_failed"] :
               r \in save_isochrone_cache(m) }
        ELSE IF branch = "reload"
        THEN { [mem |-> disk_cache, file |-> disk, op |-> "reloaded"] }
        ELSE { [mem |-> m, file |-> disk, op |-> "in_sync"] }

Rerun(s) ==
    /\ s \in live
    /\ ~lk[s].run
    /\ IF load_isochrone_cache.raised THEN Crash(s)
       ELSE /\ \E r \in Sync(mem[s]) :
                  /\ mem' = [mem EXCEPT ![s] = r.mem]
                  /\ disk' = r.file
                  /\ last' = Quiet(r.op, s)
            /\ UNCHANGED <<token, live, lk, pipelineVars, uploadVars, dataVars>>

\* app.py 864-887: get_isochrone up to the retry loop.  The attempts of a
\* call touch only the call's own state, so the calls of different sessions
\* are taken one after the other.
GetIsochrone(s, k) ==
    /\ s \in live
    /\ \A t \in Sessions : ~lk[t].run
    /\ IF k \in DOMAIN mem[s]
       THEN /\ last' = Event("hit", s, k, "", 0, 0, FALSE, TRUE, mem[s][k])
            /\ lk' = lk
       ELSE /\ lk' = [lk EXCEPT ![s] = [run |-> TRUE, key |-> k,
                                        attempt |-> 0, calls |-> 0]]
            /\ last' = Quiet("call", s)
    /\ UNCHANGED <<disk, token, live, mem, pipelineVars, uploadVars, dataVars>>

\* What the service (or the network) answers to one requests.get.
Responses == {"200", "200_no_features", "429", "other_status", "timeout", "exception"}

\* Mutant: a linear backoff.
wait_time_linear(attempt) == (attempt + 1) * 2

\* app.py 910/920: wait_time = (2 ** attempt) * 2
wait_time(attempt) == (2 ^ attempt) * 2

\* app.py 912/922: time.sleep(wait_time) before `continue`.
Sleeps(r) == r \in {"429", "timeout"}

\* Mutant: every failure is retried.
Continues_any_failure(r) == r # "200"

\* Whether the loop goes on to its next iteration after response r: the
\* `continue` of 913/923, and a 200 without features, which falls out of
\* the if at 897 to the end of the loop body.
Continues(r) == Sleeps(r) \/ r = "200_no_features"

\* Mutant: the put starts from the content of the file.
cache_put_reread(m, k, c) ==
    LET d == load_isochrone_cache.val
    IN  [x \in DOMAIN d \cup DOMAIN m \cup {k} |->
            IF x = k THEN c ELSE IF x \in DOMAIN m THEN m[x] ELSE d[x]]

\* app.py 900: st.session_state.isochrone_cache[cache_key] = result, on the
\* session cache m; the file is not read.
cache_put(m, k, c) ==
    [x \in DOMAIN m \cup {k} |-> IF x = k THEN c ELSE m[x]]

\* app.py 888-930: one iteration of the retry loop.
Attempt(s) ==
    /\ lk[s].run
    /\ \E r \in Responses :
        LET a == lk[s].attempt
            k == lk[s].key
            n == lk[s].calls + 1
            w == IF Sleeps(r) THEN wait_time(a) ELSE 0
        IN  IF r = "200"
            THEN \E c \in CoordsFor(k) :
                 LET cache == cache_put(mem[s], k, c)
                 IN  \E sv \in save_isochrone_cache(cache) :
                        /\ mem' = [mem EXCEPT ![s] = cache]
                        /\ disk' = sv.file
                        /\ lk' = [lk EXCEPT ![s] = Idle]
                        /\ last' = Event("fetched", s, k, r, n, 0, sv.ok, TRUE, c)
            ELSE IF Continues(r) /\ a + 1 < max_retries
            THEN /\ lk' = [lk EXCEPT ![s] = [run |-> TRUE, key |-> k,
                                             attempt |-> a + 1, calls |-> n]]
                 /\ last' = Event("retry", s, k, r, n, w, FALSE, FALSE, <<>>)
                 /\ UNCHANGED <<mem, disk>>
            ELSE /\ lk' = [lk EXCEPT ![s] = Idle]
                 /\ last' = Event(IF Continues(r) THEN "exhausted" ELSE "failed",
                                  s, k, r, n, w, FALSE, FALSE, <<>>)
                 /\ UNCHANGED <<mem, disk>>
    /\ UNCHANGED <<token, live, pipelineVars, uploadVars, dataVars>>

\* app.py 1043-1049: the click reruns the script (847-862), the handler
\* removes the file and empties the session cache, and st.rerun() runs
\* 847-862 again, on two empty sides.
ClearCache(s) ==
    /\ s \in live
    /\ ~lk[s].run
    /\ disk' = NoFile
    /\ mem' = [mem EXCEPT ![s] = EmptyCache]
    /\ last' = Quiet("clear", s)
    /\ UNCHANGED <<token, live, lk, pipelineVars, uploadVars, dataVars>>

\* The process ends and is started again: every session state is gone.
Restart ==
    /\ live # {}
    /\ live' = {}
    /\ mem' = [s \in Sessions |-> EmptyCache]
    /\ lk' = [s \in Sessions |-> Idle]
    /\ last' = IF last.op = "fetched"
               THEN [last EXCEPT !.op = "restart_after_put"]
               ELSE Quiet("restart", "")
    /\ UNCHANGED <<disk, token, pipelineVars, uploadVars, dataVars>>

----------------------------------------------------------------------------
(* The optional input files and the two renderings *)

\* epci_2025_complete.geojson, QP2024_..._WGS84.geojson, the four indicator
\* tables and isochrone_cache.json.
Optional == {"epci", "qpv", "chomage", "pauvrete", "neets", "diplome", "cache"}

Indicators == {"chomage", "pauvrete", "neets", "diplome"}

\* The layers a rendering adds to the map.
Layer(name) == "layer_" \o name

NotStarted == [pc |-> "start", loaded |-> {}, enriched |-> FALSE, layers |-> {}]

\* generate_map.py 111-166: load_indicator_csvs() returns None without the
\* boundary file, and otherwise the tables found.
load_indicator_csvs ==
    IF "epci" \notin files THEN [none |-> TRUE, tables |-> {}]
    ELSE [none |-> FALSE, tables |-> files \cap Indicators]

\* generate_map.py 234: the result is unpacked into four names.
GmUnpack(r) ==
    IF r.none THEN [raised |-> TRUE, tables |-> {}]      \* TypeError
    ELSE [raised |-> FALSE, tables |-> r.tables]

\* generate_map.py 232-245: the data is loaded.
GmLoad ==
    /\ gm.pc = "start"
    /\ LET u == GmUnpack(load_indicator_csvs)
           cache == LoadFrom(IF "cache" \in files THEN disk ELSE NoFile)
       IN  IF u.raised \/ cache.raised
           THEN gm' = [gm EXCEPT !.pc = "crashed"]
           ELSE gm' = [gm EXCEPT !.pc = "loaded",
                          !.loaded = (files \cap {"epci", "qpv"}) \cup u.tables
                                     \cup (IF DOMAIN cache.val # {} THEN {"cache"} ELSE {})]
    /\ UNCHANGED <<cacheVars, files, app, uploadVars, dataVars>>

\* generate_map.py 276-303: epci_enriched is bound only with boundary data.
GmEnrich ==
    /\ gm.pc = "loaded"
    /\ gm' = [gm EXCEPT !.pc = "enriched", !.enriched = ("epci" \in gm.loaded)]
    /\ UNCHANGED <<cacheVars, files, app, uploadVars, dataVars>>

\* The layers built from the data loaded: the boundary layer by zone count
\* needs zones counted on boundaries, each indicator layer its table joined
\* on boundaries; the files present are taken to hold matching rows.
LayersOf(loaded) ==
    (IF {"epci", "qpv"} \subseteq loaded THEN {Layer("epci")} ELSE {})
    \cup (IF "qpv" \in loaded THEN {Layer("qpv")} ELSE {})
    \cup (IF "epci" \in loaded THEN {Layer(t) : t \in loaded \cap Indicators} ELSE {})
    \cup (IF "cache" \in loaded THEN {Layer("isochrones")} ELSE {})
    \cup {Layer("markers")}

\* generate_map.py 305-534: `if epci_enriched:` reads the name (NameError
\* when it was never bound), then the layers and the markers are added.
GmLayers ==
    /\ gm.pc = "enriched"
    /\ IF ~gm.enriched
       THEN gm' = [gm EXCEPT !.pc = "crashed"]
       ELSE gm' = [gm EXCEPT !.pc = "layered", !.layers = LayersOf(gm.loaded)]
    /\ UNCHANGED <<cacheVars, files, app, uploadVars, dataVars>>

\* generate_map.py 536-542: map.html is written.
GmSave ==
    /\ gm.pc = "layered"
    /\ gm' = [gm EXCEPT !.pc = "done"]
    /\ UNCHANGED <<cacheVars, files, app, uploadVars, dataVars>>

\* app.py 1112-1193: the zone layers; get_epci_qpv_counts() is None unless
\* both files are there.
AppZones ==
    /\ app.pc = "start"
    /\ app' = [app EXCEPT !.pc = "zones", !.loaded = files \cap {"epci", "qpv"},
                  !.layers = LayersOf(files \cap {"epci", "qpv"}) \ {Layer("markers")}]
    /\ UNCHANGED <<cacheVars, files, gm, uploadVars, dataVars>>

\* app.py 225-226, 300-301: a table filtered by the boundary codes is
\* pivoted and its columns are renamed to four names; with no boundary
\* code the pivot has no value column and the renaming raises ValueError.
PivotRaises(table) ==
    table \in {"chomage", "diplome"} /\ table \in files /\ "epci" \notin files

\* app.py 1196-1377: get_epci_with_indicators() calls the four loaders
\* (322-327) before it tests the boundary data (330), then the indicator
\* layers are added.
AppIndicators ==
    /\ app.pc = "zones"
    /\ IF \E t \in Indicators : PivotRaises(t)
       THEN app' = [app EXCEPT !.pc = "crashed"]
       ELSE LET tables == IF "epci" \in files THEN files \cap Indicators ELSE {}
            IN  app' = [app EXCEPT !.pc = "indicators",
                           !.enriched = ("epci" \in files),
                           !.loaded = app.loaded \cup tables,
                           !.layers = app.layers \cup {Layer(t) : t \in tables}]
    /\ UNCHANGED <<cacheVars, files, gm, uploadVars, dataVars>>

\* app.py 1392-1561: the isochrone layers from the session cache (an
\* absent or unparsable file gave an empty cache) and the markers.
AppMarkers ==
    /\ app.pc = "indicators"
    /\ LET cache == LoadFrom(IF "cache" \in files THEN disk ELSE NoFile)
       IN  IF cache.raised
           THEN app' = [app EXCEPT !.pc = "crashed"]
           ELSE app' = [app EXCEPT !.pc = "done",
                           !.layers = app.layers \cup {Layer("markers")}
                              \cup (IF DOMAIN cache.val # {}
                                    THEN {Layer("isochrones")} ELSE {})]
    /\ UNCHANGED <<cacheVars, files, gm, uploadVars, dataVars>>

----------------------------------------------------------------------------
(* The upload of an establishment table *)

\* required_columns = ['title', 'lat', 'lng'] + the six age groups
Required == {"title", "lat", "lng", "ages"}

\* A table read by pd.read_csv: its columns, and whether its lat and lng
\* columns (when it has them) are of a numeric dtype.
Tables ==
    { [kind |-> "table", cols |-> c, lat |-> a, lng |-> b] :
        c \in SUBSET Required, a \in {"numeric", "text"}, b \in {"numeric", "text"} }

NoUpload == [kind |-> "none", cols |-> {}, lat |-> "", lng |-> ""]

\* A file pd.read_csv cannot read.
Unreadable == [kind |-> "unreadable", cols |-> {}, lat |-> "", lng |-> ""]

\* app.py 764-772: load_default_data()
load_default_data ==
    [kind |-> "table", cols |-> Required, lat |-> "numeric", lng |-> "numeric"]

\* app.py 950-967: what the sidebar shows for the uploaded file u.
Validate(u) ==
    IF u.kind = "none" THEN ""
    ELSE IF u.kind = "unreadable" THEN "error"                  \* except Exception
    ELSE IF Required \ u.cols # {} THEN "missing_columns"       \* if missing
    ELSE IF u.lat # "numeric" THEN "invalid_lat_lng"            \* is_numeric_dtype(lat)
    ELSE "accepted"

\* app.py 978-983: the bounding-box comparisons need numeric columns.
Filtered(t) ==
    IF t.lat = "numeric" /\ t.lng = "numeric" THEN "rendered" ELSE "crashed"

\* One run of the script: the sidebar message and how the run ends.
Run(u, t) == [msg |-> Validate(u), end |-> Filtered(t)]

\* A file is put into (or taken out of) the uploader; the script reruns.
ChooseFile(u) ==
    /\ u # uploaded
    /\ uploaded' = u
    /\ df' = df
    /\ shown' = Run(u, df)
    /\ UNCHANGED <<cacheVars, pipelineVars, dataVars>>

\* app.py 962-965: "Remplacer", shown only under the success message.
ClickReplace ==
    /\ Validate(uploaded) = "accepted"
    /\ df' = uploaded                    \* dropna drops rows, not columns
    /\ uploaded' = uploaded
    /\ shown' = Run(uploaded, uploaded)  \* st.rerun()
    /\ UNCHANGED <<cacheVars, pipelineVars, dataVars>>

\* app.py 970-973: "Reinitialiser"
ClickReset ==
    /\ df' = load_default_data
    /\ uploaded' = uploaded
    /\ shown' = Run(uploaded, load_default_data)
    /\ UNCHANGED <<cacheVars, pipelineVars, dataVars>>

\* The steps of the sessions in S.
CacheNext(S) ==
    \/ \E s \in S : StartSession(s)
    \/ \E s \in S : Rerun(s)
    \/ \E s \in S, k \in Keys : GetIsochrone(s, k)
    \/ \E s \in S : Attempt(s)
    \/ \E s \in S : ClearCache(s)
    \/ Restart

\* Nothing of the renderings or of the upload takes part.
InitPipelineIdle ==
    /\ files = Optional
    /\ gm = NotStarted
    /\ app = NotStarted

InitUploadIdle ==
    /\ df = load_default_data
    /\ uploaded = NoUpload
    /\ shown = Run(NoUpload, load_default_data)

\* No table is filtered, no function is called, no geojson is loaded.
InitDataIdle ==
    /\ rows = <<>>
    /\ rendered = <<>>
    /\ arg = <<>>
    /\ ret = <<>>
    /\ heap = <<>>

\* The cache store shared by the sessions; the token is configured.
Init == InitCache /\ token = TRUE /\ InitPipelineIdle /\ InitUploadIdle /\ InitDataIdle

Next == CacheNext(Sessions)

Spec == Init /\ [][Next]_vars

\* One session and its lookups, with or without a token.
InitLookup ==
    InitCache /\ token \in BOOLEAN /\ InitPipelineIdle /\ InitUploadIdle /\ InitDataIdle

NextLookup == CacheNext({"A"})

SpecLookup == InitLookup /\ [][NextLookup]_vars


\* generate_map.py and the dashboard's render, for every set of optional
\* files present and every content of the cache file.
InitFiles ==
    /\ files \in SUBSET Optional
    /\ gm = NotStarted
    /\ app = NotStarted
    /\ disk \in {File(<<>>), File(json_dump(EmptyCache))}
                \cup {File(json_dump(c)) : c \in {c \in Caches : DOMAIN c = Keys}}
    /\ token = FALSE
    /\ live = {}
    /\ mem = [s \in Sessions |-> EmptyCache]
    /\ lk = [s \in Sessions |-> Idle]
    /\ last = Quiet("init", "")
    /\ InitUploadIdle
    /\ InitDataIdle

NextFiles == GmLoad \/ GmEnrich \/ GmLayers \/ GmSave
             \/ AppZones \/ AppIndicators \/ AppMarkers

SpecFiles == InitFiles /\ [][NextFiles]_vars

\* The upload of a table in one session.
InitUpload ==
    /\ InitUploadIdle
    /\ InitPipelineIdle
    /\ InitCache
    /\ disk = NoFile
    /\ token = FALSE
    /\ InitDataIdle

NextUpload ==
    \/ \E u \in Tables \cup {NoUpload, Unreadable} : ChooseFile(u)
    \/ ClickReplace
    \/ ClickReset

SpecUpload == InitUpload /\ [][NextUpload]_vars

\* The attempts of a call end: requests.get(timeout=30) answers or raises,
\* and time.sleep returns.
FairLookup == SpecLookup /\ WF_vars(Attempt("A"))

----------------------------------------------------------------------------
(* Properties of the cache store *)

\* What load_isochrone_cache() would return now.
OnDisk == load_isochrone_cache.val

Count(c) == Cardinality(DOMAIN c)

SyncOps == {"synced", "sync_failed", "reloaded", "in_sync"}

C2_AppendOnly ==
    [][ ( /\ last'.op \notin {"clear", "restart", "restart_after_put", "sync_failed"}
          /\ ~(last'.op = "fetched" /\ ~last'.saved) ) =>
          /\ \A s \in live : DOMAIN mem[s] \subseteq DOMAIN mem'[s]
          /\ DOMAIN OnDisk \subseteq DOMAIN LoadFrom(disk').val
      ]_vars

C5_LoadNeverRaises ==
    /\ last.op # "crash"
    /\ (last.op \in {"start", "start_after_put"}
          /\ (~disk.exists \/ ~json_load(disk.text).ok)) =>
             mem[last.s] = EmptyCache

\* A session started on a file that holds text that does not parse.
C5_Witness ==
    /\ last.op = "start"
    /\ disk.exists
    /\ disk.text # <<>>
    /\ ~json_load(disk.text).ok
    /\ mem[last.s] = EmptyCache

\* The events that end one iteration of the retry loop.
AttemptOps == {"fetched", "retry", "exhausted", "failed"}

\* C6 (as stated): a response that is neither a polygon, a timeout nor a
\* 429 ends the lookup at once with absent.
C6_OtherFailureEnds ==
    (last.op \in AttemptOps /\ last.resp \notin {"200", "429", "timeout"}) =>
        last.op = "failed" /\ ~lk[last.s].run

\* C6 (amended): a timeout or a 429 is followed by a wait of 2 * 2^attempt
\* and, while attempts remain, by another call; a 200 answer without
\* features is followed by another call without a wait, while attempts
\* remain; a lookup makes at most max_retries calls; any other status or
\* exception ends the lookup at once with absent; a fetched polygon is
\* returned as found and is in the session cache; nothing is raised; every
\* lookup ends.
C6_BoundedRetry ==
    /\ [](last.op # "crash")
    /\ [](last.calls <= max_retries)
    /\ [](\A s \in Sessions : lk[s].run => lk[s].calls < max_retries)
    /\ [](last.resp \in {"429", "timeout"} =>
             /\ last.wait = 2 * (2 ^ (last.calls - 1))
             /\ last.op = (IF last.calls < max_retries THEN "retry" ELSE "exhausted")
             /\ lk[last.s].run = (last.calls < max_retries))
    /\ [](last.resp = "200_no_features" =>
             /\ last.wait = 0
             /\ last.op = (IF last.calls < max_retries THEN "retry" ELSE "exhausted")
             /\ lk[last.s].run = (last.calls < max_retries))
    /\ [](last.resp \in {"other_status", "exception"} =>
             last.op = "failed" /\ ~last.found /\ ~lk[last.s].run)
    /\ [](last.op \in {"failed", "exhausted"} => ~last.found)
    /\ [](last.op = "fetched" =>
             last.found /\ mem[last.s][last.key] = last.val)
    /\ \A s \in Sessions : lk[s].run ~> ~lk[s].run

\* The third call of a lookup timed out, after the longest wait.
C6_Witness ==
    /\ last.op = "exhausted"
    /\ last.resp = "timeout"
    /\ last.calls = max_retries
    /\ last.wait = 8

\* C7 (as stated): a lookup returns absent only after max_retries calls.
C7_AbsentOnlyAfterRetries ==
    last.op \in {"failed", "exhausted"} => last.calls = max_retries

\* C7 (amended): a timeout or a 429 is retried, with backoff, until
\* max_retries calls were made, and then the lookup returns absent; any
\* other non-200 response, or another exception, ends the lookup at once
\* with absent, without a retry; a failed lookup leaves the memory caches
\* and the file unchanged.
C7_FailedLookup ==
    [][ /\ last'.op = "exhausted" => last'.calls = max_retries
        /\ last'.op = "failed" => last'.resp \in {"other_status", "exception"}
        /\ last'.resp \in {"other_status", "exception"} => last'.op = "failed"
        /\ last'.resp \in {"429", "timeout"} =>
              /\ last'.wait > 0
              /\ last'.op = (IF last'.calls < max_retries THEN "retry" ELSE "exhausted")
        /\ last'.op \in {"retry", "failed", "exhausted"} =>
              mem' = mem /\ disk' = disk
      ]_vars

\* A non-200, non-429 answer to the second call ended the lookup.
C7_Witness ==
    /\ last.op = "failed"
    /\ last.resp = "other_status"
    /\ last.calls = 2

\* C8: without a token, get_isochrone makes no outbound call.
C8_NoCallWithoutToken ==
    ~token => last.calls = 0


----------------------------------------------------------------------------
(* Properties of the renderings and of the upload *)

\* C9: whatever optional files are missing, generate_map and the dashboard
\* render run to completion: neither ends in an uncaught exception.
C9_NothingFatal ==
    /\ gm.pc # "crashed"
    /\ app.pc # "crashed"

\* C10: an uploaded table that lacks a required column or has a non-numeric
\* lat or lng is rejected with a message, and the session table is never
\* one with non-numeric coordinates.
C10_UploadRejected ==
    /\ (uploaded.kind = "table"
          /\ (Required \ uploaded.cols # {}
                \/ uploaded.lat # "numeric" \/ uploaded.lng # "numeric")) =>
             shown.msg \in {"missing_columns", "invalid_lat_lng"}
    /\ df.lat = "numeric" /\ df.lng = "numeric"

----------------------------------------------------------------------------
(* The establishment filter *)

MaxRows == 2

\* A cell of a numeric column: a number, or pandas' NaN for a missing one.
Num(n) == [nan |-> FALSE, v |-> n]

NaN == [nan |-> TRUE, v |-> 0]

\* Comparisons of a column with a number: False on NaN.
Ge(x, n) == ~x.nan /\ x.v >= n

Le(x, n) == ~x.nan /\ x.v <= n

\* Latitudes and longitudes on and around the bounds, in degrees.
Lats == {Num(40), Num(41), Num(52), Num(53), NaN}

Lngs == {Num(-7), Num(-6), Num(10), Num(11), NaN}

Row == [lat : Lats, lng : Lngs]

SeqsUpTo(S, n) == UNION {[1..k -> S] : k \in 0..n}

\* "Draft etablissements_categorized.csv"
DefaultFile ==
    << [lat |-> Num(46), lng |-> Num(2)], [lat |-> NaN, lng |-> Num(2)],
       [lat |-> Num(41), lng |-> Num(10)], [lat |-> Num(-21), lng |-> Num(55)] >>

\* df.dropna(subset=['lat', 'lng'])
dropna(t) == SelectSeq(t, LAMBDA r : ~r.lat.nan /\ ~r.lng.nan)

\* A filter with the bounds left out.
MainlandFilter_strict(t) ==
    SelectSeq(t, LAMBDA r : /\ ~r.lat.nan /\ r.lat.v > 41 /\ r.lat.v < 52
                            /\ ~r.lng.nan /\ r.lng.v > -6 /\ r.lng.v < 10)

\* app.py 979-983: the rows every later step of the script works on.
MainlandFilter(t) ==
    SelectSeq(t, LAMBDA r : /\ Ge(r.lat, 41) /\ Le(r.lat, 52)
                            /\ Ge(r.lng, -6) /\ Le(r.lng, 10))

\* generate_map.py 240
GmMainlandFilter(t) ==
    SelectSeq(t, LAMBDA r : /\ Ge(r.lat, 41) /\ Le(r.lat, 52)
                            /\ Ge(r.lng, -6) /\ Le(r.lng, 10))

\* One run of the dashboard script on the session table t that came from src.
Render(src, t) == [src |-> src, rows |-> MainlandFilter(t)]

\* app.py 962-965: "Remplacer" with the uploaded table arg, then the rerun.
ReplaceRows ==
    /\ rows' = dropna(arg)
    /\ rendered' = Render("upload", rows')
    /\ UNCHANGED <<cacheVars, pipelineVars, uploadVars, arg, ret, heap>>

\* app.py 1598-1603: "Appliquer" with the table arg out of the editor, then
\* the rerun.
ApplyEdits ==
    /\ rows' = arg
    /\ rendered' = Render("editor", rows')
    /\ UNCHANGED <<cacheVars, pipelineVars, uploadVars, arg, ret, heap>>

\* app.py 970-973: the default table is loaded again, then the rerun.
ResetRows ==
    /\ rows' = dropna(DefaultFile)
    /\ rendered' = Render("default", rows')
    /\ UNCHANGED <<cacheVars, pipelineVars, uploadVars, arg, ret, heap>>

\* generate_map.py 238-240, 447-534: the file arg is read and filtered.
GenerateMapRows ==
    /\ rows' = arg
    /\ rendered' = [src |-> "generate_map", rows |-> GmMainlandFilter(rows')]
    /\ UNCHANGED <<cacheVars, pipelineVars, uploadVars, arg, ret, heap>>

\* A session on the default table; arg is the table uploaded, edited or
\* read by generate_map.
InitRows ==
    /\ InitCache /\ disk = NoFile /\ token = FALSE
    /\ InitPipelineIdle
    /\ InitUploadIdle
    /\ arg \in SeqsUpTo(Row, MaxRows)
    /\ rows = dropna(DefaultFile)
    /\ rendered = Render("default", rows)
    /\ ret = <<>>
    /\ heap = <<>>

NextRows == ReplaceRows \/ ApplyEdits \/ ResetRows \/ GenerateMapRows

SpecRows == InitRows /\ [][NextRows]_vars

\* C11: the rows rendered are exactly the rows of the table, in order, whose
\* lat and lng are both present with 41 <= lat <= 52 and -6 <= lng <= 10,
\* for the default table, an uploaded table, an edited table and the file
\* generate_map reads.
C11_RenderedIffInBox ==
    /\ rendered.rows =
          SelectSeq(rows, LAMBDA r : /\ ~r.lat.nan /\ ~r.lng.nan
                                     /\ 41 <= r.lat.v /\ r.lat.v <= 52
                                     /\ -6 <= r.lng.v /\ r.lng.v <= 10)
    /\ rendered.src \in {"default", "upload", "editor", "generate_map"}

\* An edited table with a row on two bounds, kept, and a row without lat,
\* dropped.
C11_Witness ==
    /\ rendered.src = "editor"
    /\ Len(rows) = 2
    /\ rows[1] = [lat |-> Num(41), lng |-> Num(-6)]
    /\ rows[2].lat.nan
    /\ rendered.rows = <<rows[1]>>

----------------------------------------------------------------------------
(* Strings, as sequences of characters *)

\* The upper-case letters of the names used here, and their lower case.
Upper == <<"A", "B", "C", "D", "E", "F", "G", "I", "L", "M", "N", "O", "P", "R", "S", "T", "Y", "É">>

LowerOf == <<"a", "b", "c", "d", "e", "f", "g", "i", "l", "m", "n", "o", "p", "r", "s", "t", "y", "é">>

\* str.lower() of one character
LowerChar(c) ==
    IF \E i \in 1..Len(Upper) : Upper[i] = c
    THEN LowerOf[CHOOSE i \in 1..Len(Upper) : Upper[i] = c]
    ELSE c

\* s.lower()
lower(s) == [i \in 1..Len(s) |-> LowerChar(s[i])]

\* s.startswith(prefix)
startswith(s, prefix) ==
    Len(prefix) <= Len(s) /\ SubSeq(s, 1, Len(prefix)) = prefix

\* sub in s
contains(s, sub) ==
    \E i \in 1..(Len(s) - Len(sub) + 1) : SubSeq(s, i, i + Len(sub) - 1) = sub

\* A value that is missing (None).
None == <<"None">>

----------------------------------------------------------------------------
(* The mainland predicates on codes and on boundary features *)

\* is_france_hexagonale with the test of an empty code left out.
is_france_hexagonale_any(dept_code) ==
    dept_code # None /\ (Len(dept_code) <= 2 \/ startswith(dept_code, <<"2">>))

\* app.py 65-70, generate_map.py 25-29
is_france_hexagonale(dept_code) ==
    IF dept_code = None \/ dept_code = <<>> THEN FALSE      \* if not dept_code
    ELSE Len(dept_code) <= 2 \/ startswith(dept_code, <<"2">>)

\* app.py 83-86: the zones kept, in file order.
load_qpv_features(features) ==
    SelectSeq(features, LAMBDA f : is_france_hexagonale(f.insee_dep))

overseas_keywords ==
    { <<"G", "u", "a", "d", "e", "l", "o", "u", "p", "e">>,
      <<"M", "a", "r", "t", "i", "n", "i", "q", "u", "e">>,
      <<"G", "u", "y", "a", "n", "e">>,
      <<"M", "a", "y", "o", "t", "t", "e">>,
      <<"R", "é", "u", "n", "i", "o", "n">>,
      <<"R", "e", "u", "n", "i", "o", "n">>,
      <<"L", "e", "v", "a", "n", "t">>,
      <<"S", "a", "i", "n", "t", "-", "M", "a", "r", "t", "i", "n">>,
      <<"S", "a", "i", "n", "t", "-", "P", "i", "e", "r", "r", "e">>,
      <<"B", "a", "s", "s", "e", "-", "T", "e", "r", "r", "e">>,
      <<"C", "a", "r", "a", "ï", "b", "e">>,
      <<"C", "a", "r", "a", "i", "b", "e">>,
      <<"C", "a", "p", " ", "E", "x", "c", "e", "l", "l", "e", "n", "c", "e">>,
      <<"G", "r", "a", "n", "d", "e", "-", "T", "e", "r", "r", "e">>,
      <<"M", "a", "r", "i", "e", "-", "G", "a", "l", "a", "n", "t", "e">>,
      <<"S", "a", "v", "a", "n", "e", "s">>,
      <<"D", "e", "m", "b", "e", "n", "i">>,
      <<"P", "e", "t", "i", "t", "e", "-", "T", "e", "r", "r", "e">>,
      <<"C", "e", "n", "t", "r", "e", " ", "O", "u", "e", "s", "t">>,
      <<"N", "o", "r", "d", " ", "G", "r", "a", "n", "d", "e">> }

overseas_exact_names ==
    { <<"C", "C", " ", "d", "u", " ", "S", "u", "d">>,
      <<"C", "C", " ", "d", "u", " ", "C", "e", "n", "t", "r", "e", " ", "O", "u", "e", "s", "t">>,
      <<"C", "C", " ", "d", "u", " ", "C", "e", "n", "t", "r", "e", "-", "O", "u", "e", "s", "t">> }

overseas_code_prefixes ==
    { <<"2", "4", "9", "7", "1">>,
      <<"2", "4", "9", "7", "2">>,
      <<"2", "4", "9", "7", "3">>,
      <<"2", "4", "9", "7", "4">>,
      <<"2", "4", "9", "7", "6">>,
      <<"2", "4", "9", "7", "2", "0">>,
      <<"2", "4", "9", "7", "3", "0">>,
      <<"2", "4", "9", "7", "4", "0">> }

\* app.py 130-138
is_overseas_name(name) ==
    IF name = None \/ name = <<>> THEN FALSE                 \* if not name
    ELSE IF name \in overseas_exact_names THEN TRUE
    ELSE \E kw \in overseas_keywords : contains(lower(name), lower(kw))

\* app.py 140-144
is_overseas_code(code) ==
    IF code = None \/ code = <<>> THEN FALSE                 \* if not code
    ELSE \E prefix \in overseas_code_prefixes : startswith(code, prefix)

\* Values of a parsed geojson: a list or a number.
L(xs) == [list |-> xs]

N(n) == [num |-> n]

IsList(x) == "list" \in DOMAIN x

IsNum(x) == "num" \in DOMAIN x

\* An IndexError or a TypeError was raised.
Raised == [raised |-> TRUE]

IsRaised(x) == "raised" \in DOMAIN x

\* x[i], with Python's indices
Get(x, i) == IF IsList(x) /\ i < Len(x.list) THEN x.list[i + 1] ELSE Raised

\* Coordinates are counted in 1/10000 of a degree.
Deg(n) == n * 10000

\* app.py 165-167, 1107-1109: `return -6 < lng < 10 and 41 < lat < 52`
\* inside `try`, with `except (IndexError, TypeError): return True`.
InBox(lng, lat) ==
    IF IsRaised(lng) \/ IsRaised(lat) THEN TRUE           \* IndexError, TypeError
    ELSE IF ~IsNum(lng) THEN TRUE                         \* TypeError
    ELSE IF ~(Deg(-6) < lng.num /\ lng.num < Deg(10)) THEN FALSE
    ELSE IF ~IsNum(lat) THEN TRUE                         \* TypeError
    ELSE Deg(41) < lat.num /\ lat.num < Deg(52)

\* app.py 155-167, 1096-1109: the test of the first coordinate.
FirstCoordinateTest(geometry) ==
    LET coords == geometry.coordinates
    IN  IF coords = L(<<>>) THEN FALSE                    \* if not coords
        ELSE IF geometry.type = "Polygon"
        THEN InBox(Get(Get(Get(coords, 0), 0), 0), Get(Get(Get(coords, 0), 0), 1))
        ELSE IF geometry.type = "MultiPolygon"
        THEN InBox(Get(Get(Get(Get(coords, 0), 0), 0), 0),
                   Get(Get(Get(Get(coords, 0), 0), 0), 1))
        ELSE TRUE

\* in_mainland without the test of the code.
in_mainland_no_code(feature) ==
    IF is_overseas_name(feature.libgeo) THEN FALSE
    ELSE FirstCoordinateTest(feature.geometry)

\* app.py 146-167, generate_map.py 83-102
in_mainland(feature) ==
    IF is_overseas_name(feature.libgeo) THEN FALSE
    ELSE IF is_overseas_code(feature.codgeo) THEN FALSE
    ELSE FirstCoordinateTest(feature.geometry)

\* app.py 1094-1109, generate_map.py 258-273
is_mainland_epci(feature) == FirstCoordinateTest(feature.geometry)

\* round(c, 3): to the nearest 1/1000 of a degree (no value used here lies
\* half way).
round3(n) == ((n + 5) \div 10) * 10

RECURSIVE simplify_coords(_)
\* app.py 174-177, generate_map.py 31-35
simplify_coords(coords) ==
    IF ~IsList(coords) \/ coords = L(<<>>) THEN Raised         \* coords[0]
    ELSE IF IsNum(coords.list[1])
    THEN IF \A i \in DOMAIN coords.list : IsNum(coords.list[i])
         THEN L([i \in DOMAIN coords.list |-> N(round3(coords.list[i].num))])
         ELSE Raised                                           \* round(list)
    ELSE LET parts == [i \in DOMAIN coords.list |-> simplify_coords(coords.list[i])]
         IN  IF \E i \in DOMAIN parts : IsRaised(parts[i]) THEN Raised
             ELSE L(parts)

\* The features kept, each with its coordinates simplified; an exception of
\* simplify_coords is not caught.
Simplified(kept) ==
    LET coords == [i \in DOMAIN kept |-> simplify_coords(kept[i].geometry.coordinates)]
    IN  IF \E i \in DOMAIN kept : IsRaised(coords[i])
        THEN [raised |-> TRUE, features |-> <<>>]
        ELSE [raised |-> FALSE,
              features |-> [i \in DOMAIN kept |->
                              [kept[i] EXCEPT !.geometry.coordinates = coords[i]]]]

\* app.py 103-183, generate_map.py 53-109: the features of the file.
load_epci_geojson(features) == Simplified(SelectSeq(features, in_mainland))

\* app.py 76-100, generate_map.py 37-51
load_qpv_geojson(features) == Simplified(load_qpv_features(features))

\* Department codes: every string of up to three of these characters, and
\* a missing code.
DeptChars == {"0", "2", "7", "9", "A"}

DeptCodes == SeqsUpTo(DeptChars, 3) \cup {None}

\* The geometry of a priority zone, well inside the mainland.
ZoneGeometry ==
    [type |-> "Polygon",
     coordinates |-> L(<<L(<<L(<<N(23456), N(488123)>>), L(<<N(23467), N(488129)>>)>>)>>)]

\* Priority-zone files: up to two zones.
Zone(dep, id) == [id |-> id, insee_dep |-> dep, geometry |-> ZoneGeometry]

ZoneDepts == {None, <<>>, <<"7", "5">>, <<"2", "A">>, <<"9", "7", "1">>, <<"2", "0", "0">>}

ZoneFiles ==
    {<<>>} \cup {<<Zone(a, 1)>> : a \in ZoneDepts}
    \cup {<<Zone(a, 1), Zone(b, 2)>> : a, b \in ZoneDepts}

\* Names of boundary features.
TestNames ==
    { None,
      <<>>,
      <<"G", "r", "a", "n", "d", " ", "L", "y", "o", "n">>,
      <<"C", "C", " ", "d", "u", " ", "S", "u", "d">>,
      <<"c", "c", " ", "d", "u", " ", "s", "u", "d">>,
      <<"C", "A", " ", "D", "E", " ", "M", "A", "Y", "O", "T", "T", "E">>,
      <<"C", "A", " ", "C", "a", "p", " ", "E", "x", "c", "e", "l", "l", "e", "n", "c", "e">> }

\* Codes of boundary features.
TestCodes ==
    { <<>>,
      <<"2", "0", "0", "0", "4", "6", "9", "7", "7">>,
      <<"2", "4", "9", "7", "1", "0", "0", "4", "7">>,
      <<"2", "4", "9", "7", "6">> }

GridLng == {Deg(-7), Deg(-6), Deg(2), 99996, Deg(10), Deg(11)}

GridLat == {Deg(40), Deg(41), Deg(46), Deg(52), Deg(53)}

Point(lng, lat) == L(<<N(lng), N(lat)>>)

\* A ring that starts at the point p.
Ring(p) == L(<<p, Point(Deg(3), Deg(47)), Point(Deg(3), Deg(46)), p>>)

Polygons == { [type |-> "Polygon", coordinates |-> L(<<Ring(Point(x, y))>>)] :
                x \in GridLng, y \in GridLat }

MultiPolygons ==
    { [type |-> "MultiPolygon", coordinates |-> L(<<L(<<Ring(Point(x, y))>>)>>)] :
        x \in GridLng, y \in GridLat }

\* Geometries of another type, without coordinates, or whose coordinates
\* are not nested as their type says.
OtherGeometries ==
    { [type |-> "Point", coordinates |-> Point(Deg(55), Deg(-21))],
      [type |-> "Point", coordinates |-> Point(Deg(2), Deg(46))],
      [type |-> "Polygon", coordinates |-> L(<<>>)],
      [type |-> "Polygon", coordinates |-> L(<<L(<<>>)>>)],
      [type |-> "Polygon", coordinates |-> L(<<L(<<Ring(Point(Deg(55), Deg(-21)))>>)>>)],
      [type |-> "MultiPolygon", coordinates |-> L(<<Ring(Point(Deg(55), Deg(-21)))>>)] }

Geometries == Polygons \cup MultiPolygons \cup OtherGeometries

Feature(id, name, code, g) ==
    [id |-> id, libgeo |-> name, codgeo |-> code, geometry |-> g]

Lyon(id) ==
    Feature(id, <<"G", "r", "a", "n", "d", " ", "L", "y", "o", "n">>, <<"2", "0", "0", "0", "4", "6", "9", "7", "7">>,
            [type |-> "Polygon", coordinates |-> L(<<Ring(Point(48352, 457640))>>)])

\* Boundary files: one feature, alone or after another one.
EpciFiles ==
    { <<Feature(1, n, c, g)>> : n \in TestNames, c \in TestCodes, g \in Geometries }
    \cup { <<Lyon(1), Feature(2, n, c, g)>> :
             n \in TestNames, c \in TestCodes, g \in Geometries }

NotCalled == [fn |-> "none"]

\* is_france_hexagonale(arg.code)
CallIsFranceHexagonale ==
    /\ arg.kind = "dept"
    /\ ret' = [fn |-> "is_france_hexagonale", val |-> is_france_hexagonale(arg.code)]
    /\ UNCHANGED <<cacheVars, pipelineVars, uploadVars, rows, rendered, arg, heap>>

\* load_qpv_geojson() on the file arg.features
CallLoadQpv ==
    /\ arg.kind = "qpv"
    /\ LET r == load_qpv_geojson(arg.features)
       IN  ret' = [fn |-> "load_qpv_geojson", raised |-> r.raised, features |-> r.features]
    /\ UNCHANGED <<cacheVars, pipelineVars, uploadVars, rows, rendered, arg, heap>>

\* load_epci_geojson() on the file arg.features
CallLoadEpci ==
    /\ arg.kind = "epci"
    /\ LET r == load_epci_geojson(arg.features)
       IN  ret' = [fn |-> "load_epci_geojson", raised |-> r.raised, features |-> r.features]
    /\ UNCHANGED <<cacheVars, pipelineVars, uploadVars, rows, rendered, arg, heap>>

\* app.py 1117-1121, generate_map.py 308-311: the mainland condition of the
\* layers, on the features loaded.
LayerMainland ==
    /\ ret.fn = "load_epci_geojson"
    /\ ~ret.raised
    /\ ret' = [fn |-> "layer", raised |-> FALSE, features |-> ret.features,
               shown |-> SelectSeq(ret.features, is_mainland_epci)]
    /\ UNCHANGED <<cacheVars, pipelineVars, uploadVars, rows, rendered, arg, heap>>

InitGeo ==
    /\ InitCache /\ disk = NoFile /\ token = FALSE
    /\ InitPipelineIdle
    /\ InitUploadIdle
    /\ rows = <<>>
    /\ rendered = <<>>
    /\ heap = <<>>
    /\ arg \in {[kind |-> "dept", code |-> c] : c \in DeptCodes}
              \cup {[kind |-> "qpv", features |-> f] : f \in ZoneFiles}
              \cup {[kind |-> "epci", features |-> f] : f \in EpciFiles}
    /\ ret = NotCalled

NextGeo == CallIsFranceHexagonale \/ CallLoadQpv \/ CallLoadEpci \/ LayerMainland

SpecGeo == InitGeo /\ [][NextGeo]_vars

\* The first coordinate of a Polygon or MultiPolygon geometry.
FirstPoint(g) ==
    IF g.type = "Polygon" THEN Get(Get(g.coordinates, 0), 0)
    ELSE IF g.type = "MultiPolygon" THEN Get(Get(Get(g.coordinates, 0), 0), 0)
    ELSE Raised

\* The geometry has a first coordinate of two numbers.
HasFirstPoint(g) ==
    LET p == FirstPoint(g)
    IN  IsList(p) /\ Len(p.list) >= 2 /\ IsNum(p.list[1]) /\ IsNum(p.list[2])

\* The point predicate of the establishments, on a first coordinate.
PointPredicate(g) ==
    LET p == FirstPoint(g)
    IN  /\ Deg(41) <= p.list[2].num /\ p.list[2].num <= Deg(52)
        /\ Deg(-6) <= p.list[1].num /\ p.list[1].num <= Deg(10)

OnBound(g) ==
    LET p == FirstPoint(g)
    IN  p.list[2].num \in {Deg(41), Deg(52)} \/ p.list[1].num \in {Deg(-6), Deg(10)}

\* The feature at place i of the file is among the features fs.
KeptIn(fs, i) == \E j \in DOMAIN fs : fs[j].id = i

\* C12: a Polygon or MultiPolygon feature, not excluded by name or code,
\* whose first coordinate satisfies the point predicate and lies exactly on
\* a bound (lat 41 or 52, lng -6 or 10) is kept by load_epci_geojson and by
\* the mainland test of the layers.
C12_BoundIncluded ==
    (ret.fn \in {"load_epci_geojson", "layer"} /\ ~ret.raised) =>
        \A i \in DOMAIN arg.features :
            LET f == arg.features[i]
            IN  ( /\ f.geometry.type \in {"Polygon", "MultiPolygon"}
                  /\ ~is_overseas_name(f.libgeo)
                  /\ ~is_overseas_code(f.codgeo)
                  /\ HasFirstPoint(f.geometry)
                  /\ PointPredicate(f.geometry)
                  /\ OnBound(f.geometry) ) =>
                KeptIn(IF ret.fn = "layer" THEN ret.shown ELSE ret.features, i)

\* C13: every feature load_epci_geojson retains has a code with none of the
\* overseas prefixes, a name that holds no overseas keyword (whatever the
\* case) and is no excluded name, coordinates that are not empty, and, when
\* it is a Polygon or MultiPolygon with a first coordinate, that coordinate
\* inside the mainland bounding box; the features retained are in file
\* order.
C13_RetainedPassAllChecks ==
    (ret.fn = "load_epci_geojson" /\ ~ret.raised) =>
        /\ \A j \in DOMAIN ret.features :
              LET f == arg.features[ret.features[j].id]
              IN  /\ ~\E p \in overseas_code_prefixes : startswith(f.codgeo, p)
                  /\ f.libgeo \notin overseas_exact_names
                  /\ f.libgeo # None =>
                        ~\E kw \in overseas_keywords : contains(lower(f.libgeo), lower(kw))
                  /\ f.geometry.coordinates # L(<<>>)
                  /\ (f.geometry.type \in {"Polygon", "MultiPolygon"}
                        /\ HasFirstPoint(f.geometry)) => PointPredicate(f.geometry)
        /\ \A j, k \in DOMAIN ret.features :
              j < k => ret.features[j].id < ret.features[k].id

\* A file of two features in the box with mainland names: the first is
\* retained, the second has an overseas code and is not.
C13_Witness ==
    /\ ret.fn = "load_epci_geojson"
    /\ ~ret.raised
    /\ Len(arg.features) = 2
    /\ arg.features[2].geometry.type = "MultiPolygon"
    /\ HasFirstPoint(arg.features[2].geometry)
    /\ FirstPoint(arg.features[2].geometry) = Point(Deg(2), Deg(46))
    /\ ~is_overseas_name(arg.features[2].libgeo)
    /\ is_overseas_code(arg.features[2].codgeo)
    /\ Len(ret.features) = 1
    /\ ret.features[1].id = 1

\* C14 (as stated): for every code string, is_france_hexagonale is true
\* exactly when the string has length <= 2 or starts with "2".
C14_EveryString ==
    (ret.fn = "is_france_hexagonale" /\ arg.code # None) =>
        ret.val = (Len(arg.code) <= 2 \/ startswith(arg.code, <<"2">>))

\* C14 (amended): for every code string that is not empty,
\* is_france_hexagonale is true exactly when the string has length <= 2 or
\* starts with "2"; for the empty string and for a missing code it is
\* false; load_qpv_geojson keeps, in file order, exactly the zones whose
\* department code has the predicate true.
C14_CodePredicate ==
    /\ ret.fn = "is_france_hexagonale" =>
          ret.val = ( /\ arg.code # None
                      /\ Len(arg.code) > 0
                      /\ (Len(arg.code) <= 2 \/ arg.code[1] = "2") )
    /\ (ret.fn = "load_qpv_geojson" /\ ~ret.raised) =>
          /\ \A i \in DOMAIN arg.features :
                KeptIn(ret.features, i) <=>
                   LET d == arg.features[i].insee_dep
                   IN  d # None /\ Len(d) > 0 /\ (Len(d) <= 2 \/ d[1] = "2")
          /\ \A j, k \in DOMAIN ret.features :
                j < k => ret.features[j].id < ret.features[k].id

\* The code "2A" is mainland, and a file with a zone of 971 and a zone of
\* 2A keeps the second only.
C14_Witness ==
    \/ /\ ret.fn = "is_france_hexagonale"
       /\ arg.code = <<"2", "A">>
       /\ ret.val
    \/ /\ ret.fn = "load_qpv_geojson"
       /\ Len(arg.features) = 2
       /\ arg.features[1].insee_dep = <<"9", "7", "1">>
       /\ arg.features[2].insee_dep = <<"2", "A">>
       /\ Len(ret.features) = 1
       /\ ret.features[1].id = 2

----------------------------------------------------------------------------
(* normalize_name *)

MaxNameLen == 3

\* U+0301 COMBINING ACUTE ACCENT and U+0307 COMBINING DOT ABOVE
ACUTE == "U+0301"

DOT_ABOVE == "U+0307"

\* U+00A0 NO-BREAK SPACE
NBSP == "U+00A0"

\* U+FB01 LATIN SMALL LIGATURE FI
FI == "U+FB01"

\* U+0130 LATIN CAPITAL LETTER I WITH DOT ABOVE
DOTTED_I == "U+0130"

\* The characters names are made of here: letters of both cases, letters
\* with an accent, the ligature U+FB01, the dotted capital I U+0130,
\* combining marks and white space.
NameChars == {"a", "E", "é", "É", FI, DOTTED_I, ACUTE, " ", NBSP, "-"}

\* unicodedata.normalize('NFKD', c) of one character
NFKDChar(c) ==
    CASE c = "é" -> <<"e", ACUTE>>
      [] c = "É" -> <<"E", ACUTE>>
      [] c = FI -> <<"f", "i">>
      [] c = DOTTED_I -> <<"I", DOT_ABOVE>>
      [] c = NBSP -> <<" ">>
      [] OTHER -> <<c>>

RECURSIVE FlatMap(_, _)
\* The results of f on the characters of s, one after the other.
FlatMap(f(_), s) ==
    IF s = <<>> THEN <<>> ELSE f(Head(s)) \o FlatMap(f, Tail(s))

\* unicodedata.normalize('NFKD', name); the marks used here are of one
\* combining class, so none is reordered.
NFKD(s) == FlatMap(NFKDChar, s)

\* unicodedata.combining(c) != 0
combining(c) == c \in {ACUTE, DOT_ABOVE}

\* str.lower() of one character of a name
LowerNameChar(c) ==
    CASE c = "I" -> <<"i">>
      [] c = DOTTED_I -> <<"i", DOT_ABOVE>>
      [] OTHER -> <<LowerChar(c)>>

\* c.isspace()
isspace(c) == c \in {" ", NBSP}

RECURSIVE lstrip(_)
lstrip(s) == IF s # <<>> /\ isspace(Head(s)) THEN lstrip(Tail(s)) ELSE s

RECURSIVE rstrip(_)
rstrip(s) ==
    IF s # <<>> /\ isspace(s[Len(s)]) THEN rstrip(SubSeq(s, 1, Len(s) - 1)) ELSE s

\* s.strip()
strip(s) == rstrip(lstrip(s))

\* A value of another type than str: None, or the NaN of an empty cell.
NotAString == {None, <<"nan">>}

\* normalize_name with the strip done before the marks are removed.
normalize_name_strip_first(name) ==
    IF name \in NotAString THEN <<>>
    ELSE FlatMap(LowerNameChar, SelectSeq(strip(NFKD(name)), LAMBDA c : ~combining(c)))

\* generate_map.py 17-23, app.py 196-201, 241-248, 314-320
normalize_name(name) ==
    IF name \in NotAString THEN <<>>                    \* not isinstance(name, str)
    ELSE LET nfkd == NFKD(name)
             ascii_name == SelectSeq(nfkd, LAMBDA c : ~combining(c))
         IN  strip(FlatMap(LowerNameChar, ascii_name))

\* normalize_name(arg.name)
CallNormalizeName ==
    /\ arg.kind = "name"
    /\ ret.fn = "none"
    /\ ret' = [fn |-> "normalize_name", val |-> normalize_name(arg.name)]
    /\ UNCHANGED <<cacheVars, pipelineVars, uploadVars, rows, rendered, arg, heap>>

\* normalize_name of the key returned
CallNormalizeNameAgain ==
    /\ ret.fn = "normalize_name"
    /\ ret' = [fn |-> "normalize_name_twice", once |-> ret.val,
               val |-> normalize_name(ret.val)]
    /\ UNCHANGED <<cacheVars, pipelineVars, uploadVars, rows, rendered, arg, heap>>

InitNames ==
    /\ InitCache /\ disk = NoFile /\ token = FALSE
    /\ InitPipelineIdle
    /\ InitUploadIdle
    /\ rows = <<>>
    /\ rendered = <<>>
    /\ heap = <<>>
    /\ arg \in {[kind |-> "name", name |-> x] :
                  x \in SeqsUpTo(NameChars, MaxNameLen) \cup NotAString}
    /\ ret = NotCalled

NextNames == CallNormalizeName \/ CallNormalizeNameAgain

SpecNames == InitNames /\ [][NextNames]_vars

\* C15: normalize_name of a key normalize_name returned is that key, and
\* an input that is no string gives the empty key.
C15_Idempotent ==
    /\ ret.fn = "normalize_name_twice" => ret.val = ret.once
    /\ (ret.fn = "normalize_name" /\ arg.name \in NotAString) => ret.val = <<>>

\* A name with an accent, a capital and a space around a mark: the key is
\* reached, and it is not the name.
C15_Witness ==
    /\ ret.fn = "normalize_name_twice"
    /\ arg.name = <<ACUTE, " ", "É">>
    /\ ret.once = <<"e">>
    /\ ret.val = <<"e">>

----------------------------------------------------------------------------
(* The enrichment of the boundary features *)

MaxZones == 2

MaxPovertyRows == 2

\* dict.get of a key that is missing
PyNone == [none |-> TRUE]

\* A value that `if x:` takes as true, for a code.
Truthy(code) == code # None /\ code # <<>>

\* d[k] = v
Put(d, k, v) == [x \in DOMAIN d \cup {k} |-> IF x = k THEN v ELSE d[x]]

EmptyDict == [x \in {} |-> PyNone]

\* Codes of boundary features and of table rows.
C001 == <<"0", "0", "1">>

C002 == <<"0", "0", "2">>

C999 == <<"9", "9", "9">>

NAME_A == <<"G", "r", "a", "n", "d", " ", "L", "y", "o", "n">>

NAME_A_UPPER == <<" ", "G", "R", "A", "N", "D", " ", "L", "Y", "O", "N">>

NAME_B == <<"A", "g", "e", "n">>

\* A parsed geojson file: {'type': 'FeatureCollection', 'features': [...]}
FeatureCollection(features) == [features |-> features]

\* A boundary feature as load_epci_geojson returns it.
Boundary(code, name) ==
    [geometry |-> [type |-> "Polygon",
                   coordinates |-> L(<<Ring(Point(48350, 457640))>>)],
     properties |-> [codgeo |-> code, libgeo |-> name]]

\* What load_epci_geojson() returns: None without the file, or the features.
BoundaryData ==
    { PyNone,
      FeatureCollection(<<Boundary(C001, NAME_A)>>),
      FeatureCollection(<<Boundary(C001, NAME_A), Boundary(C002, NAME_B)>>),
      FeatureCollection(<<Boundary(C001, NAME_A), Boundary(<<>>, None)>>),
      FeatureCollection(<<Boundary(C001, NAME_A), Boundary(C002, NAME_A_UPPER)>>) }

\* A priority zone of the file: its department and its parent code.
PriorityZone(dep, parent) == [insee_dep |-> dep, siren_epci |-> parent]

PriorityZones ==
    { PriorityZone(<<"7", "5">>, C001), PriorityZone(<<"9", "7", "1">>, C001),
      PriorityZone(<<"7", "5">>, C002), PriorityZone(<<"7", "5">>, C999),
      PriorityZone(<<"7", "5">>, <<>>), PriorityZone(<<"7", "5">>, None) }

\* The rows of a table by code and sex: one value for each pair present.
Sexes == {"F", "H", "T"}

SexValue(sexe) == CASE sexe = "F" -> Num(6) [] sexe = "H" -> Num(8) [] OTHER -> Num(7)

\* No file.
Absent == [present |-> FALSE]

\* taux_chomage_epci.csv, 15+_sans_diplomes_epci.csv: rows for C001 and
\* C002, with or without the rows of a code that is on no boundary.
PivotTables ==
    { [present |-> TRUE,
       pairs |-> p \cup (IF more THEN {[codgeo |-> C999, sexe |-> s] : s \in Sexes} ELSE {})] :
         p \in SUBSET {[codgeo |-> c, sexe |-> s] : c \in {C001, C002}, s \in Sexes},
         more \in BOOLEAN }

\* 15-24_neets_epci.csv: the value of each code, and whether the file has
\* the column part_non_inseres.
NeetsTables ==
    { [present |-> TRUE, column |-> TRUE, value |-> (C001 :> Num(5))],
      [present |-> TRUE, column |-> TRUE, value |-> (C001 :> NaN)],
      [present |-> TRUE, column |-> TRUE, value |-> (C001 :> Num(5) @@ C999 :> Num(9))],
      [present |-> TRUE, column |-> FALSE, value |-> (C001 :> Num(5))] }

\* taux_pauvrete_epci.csv: rows of a name and a rate, in file order.
PovertyRows ==
    { [libgeo |-> n, taux_pauvrete |-> v] :
        n \in {NAME_A, NAME_A_UPPER, NAME_B}, v \in {Num(10), Num(20)} }
    \cup { [libgeo |-> NAME_A, taux_pauvrete |-> NaN],
           [libgeo |-> <<"nan">>, taux_pauvrete |-> Num(30)] }

\* The boundaries and a table with every row, for the inputs below.
BoundaryFull == FeatureCollection(<<Boundary(C001, NAME_A), Boundary(C002, NAME_B)>>)

FullPivot ==
    [present |-> TRUE, pairs |-> {[codgeo |-> C001, sexe |-> s] : s \in Sexes}]

\* get_mainland_epci_codes(), generate_map.py 117
valid_codes(epci) ==
    IF epci = PyNone THEN {}
    ELSE {epci.features[i].properties.codgeo : i \in DOMAIN epci.features}

\* get_mainland_epci_names(), generate_map.py 118
valid_names(epci) ==
    IF epci = PyNone THEN {}
    ELSE {normalize_name(epci.features[i].properties.libgeo) : i \in DOMAIN epci.features}

\* app.py 210-231, 285-306, generate_map.py 121-131, 155-164: the rows of
\* the codes of the boundaries are pivoted into one row per code with one
\* column per sex present, and the columns get four names: ValueError
\* unless three sexes are present.
load_pivot(t, codes) ==
    IF ~t.present THEN [raised |-> FALSE, data |-> EmptyDict]
    ELSE LET kept == {p \in t.pairs : p.codgeo \in codes}
             cell(c, s) == IF [codgeo |-> c, sexe |-> s] \in kept THEN SexValue(s) ELSE NaN
         IN  IF Cardinality({p.sexe : p \in kept}) # 3
             THEN [raised |-> TRUE, data |-> EmptyDict]
             ELSE [raised |-> FALSE,
                   data |-> [c \in {p.codgeo : p \in kept} |->
                               [F |-> cell(c, "F"), H |-> cell(c, "H"), T |-> cell(c, "T")]]]

\* app.py 267-282, generate_map.py 145-151
load_neets(t, codes) ==
    IF ~t.present THEN EmptyDict
    ELSE [c \in DOMAIN t.value \cap codes |->
            IF t.column THEN [part_non_inseres |-> t.value[c]] ELSE EmptyDict]

\* The places of the rows kept, with keep='last'.
drop_duplicates_last(keys) ==
    {i \in DOMAIN keys : \A j \in DOMAIN keys : j > i => keys[j] # keys[i]}

\* df.drop_duplicates(subset=..., keep='first'): the places of the rows kept.
drop_duplicates(keys) ==
    {i \in DOMAIN keys : \A j \in DOMAIN keys : j < i => keys[j] # keys[i]}

\* app.py 234-264, generate_map.py 134-142
load_pauvrete(t, names) ==
    IF ~t.present THEN EmptyDict
    ELSE LET filtered == SelectSeq(t.rows, LAMBDA r : normalize_name(r.libgeo) \in names)
             keys == [i \in DOMAIN filtered |-> normalize_name(filtered[i].libgeo)]
             kept == drop_duplicates(keys)
         IN  [k \in {keys[i] : i \in kept} |->
                filtered[CHOOSE i \in kept : keys[i] = k]]

\* A count that takes a missing or empty parent code like any other.
QpvCount_any(zones, codgeo) ==
    IF zones = PyNone THEN 0
    ELSE Cardinality({i \in DOMAIN zones.features :
                        zones.features[i].siren_epci = codgeo})

\* app.py 335-340, 384-388: qpv_counts.get(codgeo, 0)
QpvCount(zones, codgeo) ==
    IF zones = PyNone THEN 0
    ELSE Cardinality({i \in DOMAIN zones.features :
                        /\ Truthy(zones.features[i].siren_epci)
                        /\ zones.features[i].siren_epci = codgeo})

\* row.get(column)
DictGet(row, column) == IF column \in DOMAIN row THEN row[column] ELSE PyNone

IndicatorAttrs ==
    {"chomage_F", "chomage_H", "chomage_T", "taux_pauvrete", "neets",
     "sans_diplome_F", "sans_diplome_H", "sans_diplome_T"}

\* An enrichment that gives every feature every attribute, None by default.
WithIndicators_filled(props, ch, pv, ne, sd) ==
    [x \in DOMAIN props \cup IndicatorAttrs |->
        IF x \in DOMAIN props THEN props[x] ELSE PyNone]

\* app.py 349-366, generate_map.py 290-303: the indicators of one feature.
WithIndicators(props, ch, pv, ne, sd) ==
    LET codgeo == props.codgeo
        libgeo_norm == normalize_name(props.libgeo)
        p1 == IF codgeo \in DOMAIN ch
              THEN Put(Put(Put(props, "chomage_F", ch[codgeo].F),
                           "chomage_H", ch[codgeo].H), "chomage_T", ch[codgeo].T)
              ELSE props
        p2 == IF libgeo_norm \in DOMAIN pv
              THEN Put(p1, "taux_pauvrete", DictGet(pv[libgeo_norm], "taux_pauvrete"))
              ELSE p1
        p3 == IF codgeo \in DOMAIN ne
              THEN Put(p2, "neets", DictGet(ne[codgeo], "part_non_inseres"))
              ELSE p2
    IN  IF codgeo \in DOMAIN sd
        THEN Put(Put(Put(p3, "sans_diplome_F", sd[codgeo].F),
                     "sans_diplome_H", sd[codgeo].H), "sans_diplome_T", sd[codgeo].T)
        ELSE p3

\* app.py 343-366: the loop over the features of the copy.
Enriched(epci, zones, ch, pv, ne, sd) ==
    FeatureCollection(
        [i \in DOMAIN epci.features |->
            [epci.features[i] EXCEPT !.properties =
                WithIndicators(Put(@, "qpv_count", QpvCount(zones, @.codgeo)),
                               ch, pv, ne, sd)]])

\* app.py 390-393
Counted(epci, zones) ==
    FeatureCollection(
        [i \in DOMAIN epci.features |->
            [epci.features[i] EXCEPT !.properties =
                Put(@, "qpv_count", QpvCount(zones, @.codgeo))]])

\* The object the enrichment writes to when the copy is the original.
deepcopy_shared(src, dst) == src

\* copy.deepcopy(src): the reference of the new object dst.
deepcopy(src, dst) == dst

\* The four tables as the loaders return them for the boundaries epci.
Tables4(epci) ==
    LET ch == load_pivot(arg.chomage, valid_codes(epci))
        sd == load_pivot(arg.diplome, valid_codes(epci))
    IN  [raised |-> ch.raised \/ sd.raised, ch |-> ch.data, sd |-> sd.data,
         pv |-> load_pauvrete(arg.pauvrete, valid_names(epci)),
         ne |-> load_neets(arg.neets, valid_codes(epci))]

\* app.py 309-368: get_epci_with_indicators()
GetEpciWithIndicators ==
    /\ LET t == Tables4(heap.epci)
           target == deepcopy("epci", "with_indicators")
       IN  IF t.raised
           THEN /\ ret' = [fn |-> "get_epci_with_indicators", raised |-> TRUE, ref |-> "none"]
                /\ heap' = heap
           ELSE IF heap.epci = PyNone
           THEN /\ ret' = [fn |-> "get_epci_with_indicators", raised |-> FALSE, ref |-> "none"]
                /\ heap' = heap
           ELSE /\ ret' = [fn |-> "get_epci_with_indicators", raised |-> FALSE, ref |-> target]
                /\ heap' = [heap EXCEPT ![target] =
                              Enriched(heap.epci, heap.qpv, t.ch, t.pv, t.ne, t.sd)]
    /\ UNCHANGED <<cacheVars, pipelineVars, uploadVars, rows, rendered, arg>>

\* app.py 371-395: get_epci_qpv_counts()
GetEpciQpvCounts ==
    /\ LET target == deepcopy("epci", "with_counts")
       IN  IF heap.qpv = PyNone \/ heap.epci = PyNone
           THEN /\ ret' = [fn |-> "get_epci_qpv_counts", raised |-> FALSE, ref |-> "none"]
                /\ heap' = heap
           ELSE /\ ret' = [fn |-> "get_epci_qpv_counts", raised |-> FALSE, ref |-> target]
                /\ heap' = [heap EXCEPT ![target] = Counted(heap.epci, heap.qpv)]
    /\ UNCHANGED <<cacheVars, pipelineVars, uploadVars, rows, rendered, arg>>

\* generate_map.py 232-303: the data is loaded and the copy is enriched.
GenerateMapEnrich ==
    /\ LET t == Tables4(heap.epci)
           target == deepcopy("epci", "epci_enriched")
       IN  IF heap.epci = PyNone \/ t.raised
           THEN /\ ret' = [fn |-> "generate_map", raised |-> TRUE, ref |-> "none"]
                /\ heap' = heap
           ELSE /\ ret' = [fn |-> "generate_map", raised |-> FALSE, ref |-> target]
                /\ heap' = [heap EXCEPT ![target] =
                              Enriched(heap.epci, heap.qpv, t.ch, t.pv, t.ne, t.sd)]
    /\ UNCHANGED <<cacheVars, pipelineVars, uploadVars, rows, rendered, arg>>

\* The files; no table but the one under study is there.
Files(epci, zones, ch, pv, ne, sd) ==
    [epci |-> epci, zones |-> zones, chomage |-> ch, pauvrete |-> pv,
     neets |-> ne, diplome |-> sd]

EnrichInputs ==
    { Files(b, z, Absent, Absent, Absent, Absent) :
        b \in BoundaryData, z \in {FeatureCollection(f) : f \in SeqsUpTo(PriorityZones, MaxZones)} \cup {PyNone} }
    \cup { Files(BoundaryFull, FeatureCollection(<<PriorityZone(<<"7", "5">>, C001)>>), ch, Absent, ne, sd) :
             ch \in PivotTables \cup {Absent}, ne \in NeetsTables \cup {Absent},
             sd \in {Absent, FullPivot} }
    \cup { Files(b, FeatureCollection(<<>>), Absent, [present |-> TRUE, rows |-> r], Absent, Absent) :
             b \in BoundaryData \ {PyNone}, r \in SeqsUpTo(PovertyRows, MaxPovertyRows) }

\* The two geojson files are loaded (and cached); nothing is enriched yet.
InitEnrich ==
    /\ InitCache /\ disk = NoFile /\ token = FALSE
    /\ InitPipelineIdle
    /\ InitUploadIdle
    /\ rows = <<>>
    /\ rendered = <<>>
    /\ arg \in EnrichInputs
    /\ heap = [epci |-> arg.epci,
               qpv |-> IF arg.zones = PyNone THEN PyNone
                       ELSE FeatureCollection(load_qpv_features(arg.zones.features)),
               with_indicators |-> PyNone, with_counts |-> PyNone, epci_enriched |-> PyNone]
    /\ ret = NotCalled

NextEnrich == GetEpciWithIndicators \/ GetEpciQpvCounts \/ GenerateMapEnrich

SpecEnrich == InitEnrich /\ [][NextEnrich]_vars

\* The enriched collections that exist.
ResultRefs == {"with_indicators", "with_counts", "epci_enriched"}

Results == {r \in ResultRefs : heap[r] # PyNone}

\* The table rows that have the key of the boundary feature f, per attribute.
HasRowFor(f, a) ==
    CASE a \in {"chomage_F", "chomage_H", "chomage_T"} ->
           /\ arg.chomage.present
           /\ \E p \in arg.chomage.pairs : p.codgeo = f.properties.codgeo
      [] a \in {"sans_diplome_F", "sans_diplome_H", "sans_diplome_T"} ->
           /\ arg.diplome.present
           /\ \E p \in arg.diplome.pairs : p.codgeo = f.properties.codgeo
      [] a = "neets" ->
           /\ arg.neets.present
           /\ f.properties.codgeo \in DOMAIN arg.neets.value
      [] OTHER ->
           /\ arg.pauvrete.present
           /\ \E j \in DOMAIN arg.pauvrete.rows :
                normalize_name(arg.pauvrete.rows[j].libgeo) = normalize_name(f.properties.libgeo)

SameName(f) ==
    {j \in DOMAIN arg.pauvrete.rows :
        normalize_name(arg.pauvrete.rows[j].libgeo) = normalize_name(f.properties.libgeo)}

FirstOf(S) == CHOOSE j \in S : \A k \in S : j <= k

\* C17: when rows of the poverty table have the normalized name of a
\* boundary feature, the feature's taux_pauvrete is the rate of the first
\* of them in file order, and the call does not raise.
C17_FirstRowWins ==
    arg.pauvrete.present =>
        /\ ret.fn # "none" => ~ret.raised
        /\ \A r \in Results \ {"with_counts"} : \A i \in DOMAIN heap[r].features :
             LET f == heap[r].features[i]
             IN  SameName(f) # {} =>
                   /\ "taux_pauvrete" \in DOMAIN f.properties
                   /\ f.properties.taux_pauvrete =
                        arg.pauvrete.rows[FirstOf(SameName(f))].taux_pauvrete

\* Two rows with one normalized name and two rates: the first rate is joined.
C17_Witness ==
    /\ arg.pauvrete.present
    /\ Len(arg.pauvrete.rows) = 2
    /\ arg.pauvrete.rows[1].libgeo # arg.pauvrete.rows[2].libgeo
    /\ arg.pauvrete.rows[1].taux_pauvrete = Num(10)
    /\ arg.pauvrete.rows[2].taux_pauvrete = Num(20)
    /\ "with_indicators" \in Results
    /\ SameName(heap.with_indicators.features[1]) = {1, 2}
    /\ heap.with_indicators.features[1].properties.taux_pauvrete = Num(10)

\* C18: whatever enrichments have run, the data load_epci_geojson returned
\* is as it was loaded: same features, same geometry, no attribute added.
C18_BaseUnchanged == heap.epci = arg.epci

\* The three enrichments have run, the results carry counts and the base
\* features do not.
C18_Witness ==
    /\ Results = ResultRefs
    /\ \A r \in ResultRefs :
         "qpv_count" \in DOMAIN heap[r].features[1].properties
    /\ "qpv_count" \notin DOMAIN heap.epci.features[1].properties

\* C19: an indicator attribute that a feature has holds a value of the
\* table: never None, never NaN.
C19_AbsentWhenMissing ==
    \A r \in Results : \A i \in DOMAIN heap[r].features :
        \A a \in IndicatorAttrs \cap DOMAIN heap[r].features[i].properties :
            /\ heap[r].features[i].properties[a] # PyNone
            /\ heap[r].features[i].properties[a] # NaN

\* The priority zones load_qpv_geojson retains.
Retained ==
    IF arg.zones = PyNone THEN <<>> ELSE load_qpv_features(arg.zones.features)

\* C20 as stated: qpv_count is the number of retained zones whose
\* siren_epci equals the feature's codgeo.
C20_CountEqualsMatches ==
    \A r \in Results : \A i \in DOMAIN heap[r].features :
        LET props == heap[r].features[i].properties
        IN  props.qpv_count =
              Cardinality({j \in DOMAIN Retained : Retained[j].siren_epci = props.codgeo})

\* C20: qpv_count is the number of retained zones that have a parent code
\* (not missing, not empty) equal to the feature's codgeo.
C20_CountNonEmptyMatches ==
    \A r \in Results : \A i \in DOMAIN heap[r].features :
        LET props == heap[r].features[i].properties
        IN  props.qpv_count =
              Cardinality({j \in DOMAIN Retained :
                             /\ Truthy(Retained[j].siren_epci)
                             /\ Retained[j].siren_epci = props.codgeo})

\* An overseas zone and a mainland zone of 001: one is counted; and a
\* zone without parent code is not counted for the feature without code.
C20_Witness ==
    /\ ret.fn = "get_epci_qpv_counts"
    /\ "with_counts" \in Results
    /\ \/ /\ arg.zones.features = <<PriorityZone(<<"9", "7", "1">>, C001),
                                    PriorityZone(<<"7", "5">>, C001)>>
          /\ heap.with_counts.features[1].properties.qpv_count = 1
       \/ /\ arg.zones.features = <<PriorityZone(<<"7", "5">>, C001),
                                    PriorityZone(<<"7", "5">>, <<>>)>>
          /\ Len(heap.with_counts.features) = 2
          /\ heap.with_counts.features[2].properties.codgeo = <<>>
          /\ heap.with_counts.features[2].properties.qpv_count = 0

----------------------------------------------------------------------------
(* The choropleth layers *)

MaxValues == 3

MaxRamp == 9

\* len(colors)
bin_count == 7

\* a < b and a <= b on floats: False when one is NaN.
Lt(a, b) == ~a.nan /\ ~b.nan /\ a.v < b.v

Leq(a, b) == ~a.nan /\ ~b.nan /\ a.v <= b.v

RECURSIVE count_run(_, _, _)
\* list.sort(): the length of the run the list starts with, descending
\* (strictly) or not, from the place k of the list.
count_run(a, k, descending) ==
    IF k < Len(a) /\ (Lt(a[k + 1], a[k]) = descending)
    THEN count_run(a, k + 1, descending)
    ELSE k

RECURSIVE bisect(_, _, _, _)
\* list.sort(): the place of pivot among a[l..r-1], indices from 0.
bisect(a, pivot, l, r) ==
    IF l < r
    THEN LET p == l + ((r - l) \div 2)
         IN  IF Lt(pivot, a[p + 1]) THEN bisect(a, pivot, l, p)
             ELSE bisect(a, pivot, p + 1, r)
    ELSE l

RECURSIVE binarysort(_, _)
\* list.sort(): a[0..start-1] is sorted; the rest is inserted one by one.
binarysort(a, start) ==
    IF start >= Len(a) THEN a
    ELSE LET pivot == a[start + 1]
             l == bisect(a, pivot, 0, start)
         IN  binarysort([i \in DOMAIN a |->
                           IF i <= l THEN a[i]
                           ELSE IF i = l + 1 THEN pivot
                           ELSE IF i <= start + 1 THEN a[i - 1]
                           ELSE a[i]], start + 1)

\* sorted(values), for a list of less than 64 floats: the first run, put
\* in ascending order, then a binary insertion sort, all with `<`.
sorted(values) ==
    IF Len(values) < 2 THEN values
    ELSE LET descending == Lt(values[2], values[1])
             k == count_run(values, 2, descending)
             a == IF descending
                  THEN [i \in DOMAIN values |->
                          IF i <= k THEN values[k + 1 - i] ELSE values[i]]
                  ELSE values
         IN  binarysort(a, k)

\* An index that rounds up.
quantile_index_ceil(n, i) == (n * i + bin_count - 1) \div bin_count

\* int(n * i / len(colors))
quantile_index(n, i) == (n * i) \div bin_count

Min(a, b) == IF a <= b THEN a ELSE b

\* app.py 1130-1133: the breakpoints of the QPV layer of the dashboard.
quantile_breaks(s) ==
    [raised |-> FALSE,
     breaks |-> [i \in 1..(bin_count - 1) |->
                   s[Min(quantile_index(Len(s), i), Len(s) - 1) + 1]]]

\* app.py 1214, 1256, 1298, 1340, generate_map.py 318, 359, 382, 405, 428:
\* the breakpoints without min(); s[idx] raises IndexError out of range.
quantile_breaks_ch(s) ==
    IF \E i \in 1..(bin_count - 1) : quantile_index(Len(s), i) >= Len(s)
    THEN [raised |-> TRUE, breaks |-> <<>>]
    ELSE [raised |-> FALSE,
          breaks |-> [i \in 1..(bin_count - 1) |-> s[quantile_index(Len(s), i) + 1]]]

RECURSIVE get_color_idx_from(_, _, _)
get_color_idx_from(breaks, value, i) ==
    IF i >= Len(breaks) THEN bin_count - 1
    ELSE IF Leq(value, breaks[i + 1]) THEN i
    ELSE get_color_idx_from(breaks, value, i + 1)

\* app.py 1135-1139, generate_map.py 320-324
get_color_idx(breaks, value) == get_color_idx_from(breaks, value, 0)

RECURSIVE style_loop_no_step(_, _, _, _)
\* The loop without `idx = i + 1`.
style_loop_no_step(breaks, val, i, idx) ==
    IF i >= Len(breaks) THEN idx
    ELSE IF Leq(val, breaks[i + 1]) THEN i
    ELSE style_loop_no_step(breaks, val, i + 1, idx)

RECURSIVE style_loop(_, _, _, _)
\* app.py 1220-1224: the loop of the *_style functions, before pass i.
style_loop(breaks, val, i, idx) ==
    IF i >= Len(breaks) THEN idx
    ELSE IF Leq(val, breaks[i + 1]) THEN i
    ELSE style_loop(breaks, val, i + 1, i + 1)

\* app.py 1219-1225: idx = 0, the loop, idx = min(idx, len(colors) - 1)
style_idx(breaks, val) == Min(style_loop(breaks, val, 0, 0), bin_count - 1)

\* generate_map.py 365-366: idx = next((i for i, t in enumerate(breaks) if
\* val <= t), len(colors) - 1), used as min(idx, len(colors) - 1)
next_idx(breaks, val) ==
    LET hits == SelectSeq([i \in DOMAIN breaks |-> i - 1],
                          LAMBDA i : Leq(val, breaks[i + 1]))
    IN  Min(IF hits = <<>> THEN bin_count - 1 ELSE Head(hits), bin_count - 1)

colors == <<"#fee5d9", "#fcbba1", "#fc9272", "#fb6a4a", "#ef3b2c", "#cb181d", "#99000d">>

colors_blue == <<"#deebf7", "#c6dbef", "#9ecae1", "#6baed6", "#4292c6", "#2171b5", "#084594">>

colors_orange == <<"#feedde", "#fdd0a2", "#fdae6b", "#fd8d3c", "#f16913", "#d94801", "#8c2d04">>

colors_purple == <<"#f2f0f7", "#dadaeb", "#bcbddc", "#9e9ac8", "#807dba", "#6a51a3", "#4a1486">>

colors_green == <<"#edf8e9", "#c7e9c0", "#a1d99b", "#74c476", "#41ab5d", "#238b45", "#005a32">>

\* The fillColor of the `if val is None` branch.
no_data_color == "#cccccc"

\* The indicator layers: the attribute classified and the palette.
IndicatorLayers ==
    { [attr |-> "chomage_T", palette |-> colors_blue],
      [attr |-> "taux_pauvrete", palette |-> colors_orange],
      [attr |-> "neets", palette |-> colors_purple],
      [attr |-> "sans_diplome_T", palette |-> colors_green] }

\* app.py 1141-1149, generate_map.py 326-329: epci_style
epci_style(feature, breaks) ==
    LET qpv_count == IF "qpv_count" \in DOMAIN feature.properties
                     THEN feature.properties.qpv_count ELSE 0
    IN  colors[get_color_idx(breaks, Num(qpv_count)) + 1]

\* app.py 1216-1227: chomage_style, pauvrete_style, neets_style, diplome_style
indicator_style(feature, layer, breaks) ==
    LET val == DictGet(feature.properties, layer.attr)
    IN  IF val = PyNone THEN no_data_color
        ELSE layer.palette[style_idx(breaks, val) + 1]

\* generate_map.py 361-366: chomage_style, pauv_style, neets_style, diplome_style
gm_indicator_style(feature, layer, breaks) ==
    LET val == DictGet(feature.properties, layer.attr)
    IN  IF val = PyNone THEN no_data_color
        ELSE layer.palette[next_idx(breaks, val) + 1]

\* What a layer is made of; no layer is made of no feature.
NoLayer(fn, attr) ==
    [fn |-> fn, attr |-> attr, created |-> FALSE, raised |-> FALSE,
     values |-> <<>>, breaks |-> <<>>, shown |-> <<>>, styles |-> <<>>]

LayerOf(fn, attr, in_layer, values, b, style(_)) ==
    [fn |-> fn, attr |-> attr, created |-> ~b.raised, raised |-> b.raised,
     values |-> values, breaks |-> b.breaks,
     shown |-> IF b.raised THEN <<>> ELSE in_layer,
     styles |-> IF b.raised THEN <<>> ELSE [i \in DOMAIN in_layer |-> style(in_layer[i])]]

\* app.py 1116-1121, generate_map.py 308-312
filtered_epci(features) ==
    SelectSeq(features, LAMBDA f : f.properties.qpv_count > 0 /\ is_mainland_epci(f))

\* app.py 1200-1201, generate_map.py 354
valid_features(features, attr) ==
    SelectSeq(features,
              LAMBDA f : DictGet(f.properties, attr) # PyNone /\ is_mainland_epci(f))

\* app.py 1114-1170: the layer 'EPCI par nb QPV' of the dashboard.
AppEpciLayer ==
    /\ arg.kind = "layer"
    /\ LET in_layer == filtered_epci(arg.features)
           qpv_counts_list == sorted([i \in DOMAIN in_layer |-> Num(in_layer[i].properties.qpv_count)])
           b == quantile_breaks(qpv_counts_list)
       IN  ret' = IF in_layer = <<>> THEN NoLayer("app_epci_layer", "qpv_count")
                  ELSE LayerOf("app_epci_layer", "qpv_count", in_layer, qpv_counts_list, b,
                               LAMBDA f : epci_style(f, b.breaks))
    /\ UNCHANGED <<cacheVars, pipelineVars, uploadVars, rows, rendered, arg, heap>>

\* generate_map.py 307-337: the layer 'EPCI par nb QPV' of the generator.
GmEpciLayer ==
    /\ arg.kind = "layer"
    /\ LET in_layer == filtered_epci(arg.features)
           qpv_counts_list == sorted([i \in DOMAIN in_layer |-> Num(in_layer[i].properties.qpv_count)])
           b == quantile_breaks_ch(qpv_counts_list)
       IN  ret' = IF in_layer = <<>> THEN NoLayer("gm_epci_layer", "qpv_count")
                  ELSE LayerOf("gm_epci_layer", "qpv_count", in_layer, qpv_counts_list, b,
                               LAMBDA f : epci_style(f, b.breaks))
    /\ UNCHANGED <<cacheVars, pipelineVars, uploadVars, rows, rendered, arg, heap>>

\* app.py 1198-1363: one of the four indicator layers of the dashboard.
AppIndicatorLayer ==
    /\ arg.kind = "layer"
    /\ \E layer \in IndicatorLayers :
         LET in_layer == valid_features(arg.features, layer.attr)
             sorted_values == sorted([i \in DOMAIN in_layer |-> in_layer[i].properties[layer.attr]])
             b == quantile_breaks_ch(sorted_values)
         IN  ret' = IF in_layer = <<>> THEN NoLayer("app_indicator_layer", layer.attr)
                    ELSE LayerOf("app_indicator_layer", layer.attr, in_layer, sorted_values, b,
                                 LAMBDA f : indicator_style(f, layer, b.breaks))
    /\ UNCHANGED <<cacheVars, pipelineVars, uploadVars, rows, rendered, arg, heap>>

\* generate_map.py 352-442: one of the four indicator layers of the generator.
GmIndicatorLayer ==
    /\ arg.kind = "layer"
    /\ \E layer \in IndicatorLayers :
         LET in_layer == valid_features(arg.features, layer.attr)
             sorted_vals == sorted([i \in DOMAIN in_layer |-> in_layer[i].properties[layer.attr]])
             b == quantile_breaks_ch(sorted_vals)
         IN  ret' = IF in_layer = <<>> THEN NoLayer("gm_indicator_layer", layer.attr)
                    ELSE LayerOf("gm_indicator_layer", layer.attr, in_layer, sorted_vals, b,
                                 LAMBDA f : gm_indicator_style(f, layer, b.breaks))
    /\ UNCHANGED <<cacheVars, pipelineVars, uploadVars, rows, rendered, arg, heap>>

\* The value a feature has for the four indicators: a rate, NaN, None, or
\* no attribute at all.
Missing == [missing |-> TRUE]

Rates == {Num(1), Num(2), Num(3), NaN, PyNone, Missing}

\* An enriched feature of the mainland with the rate v for every indicator;
\* it has as many priority zones as its rate, none without a rate.
Rated(v) ==
    LET b == Boundary(C001, NAME_A)
        counted == Put(b.properties, "qpv_count", IF "nan" \in DOMAIN v THEN v.v ELSE 0)
    IN  [b EXCEPT !.properties =
           IF v = Missing THEN counted
           ELSE [x \in DOMAIN counted \cup {l.attr : l \in IndicatorLayers} |->
                   IF x \in DOMAIN counted THEN counted[x] ELSE v]]

\* Lists of n rates that go up and down, for n above the number of bins.
Ramps ==
    { [i \in 1..n |-> Num(((i * k) % 5) + 1)] : n \in 5..MaxRamp, k \in 1..4 }

LayerInputs ==
    { [i \in DOMAIN vs |-> Rated(vs[i])] : vs \in SeqsUpTo(Rates, MaxValues) \cup Ramps }

InitLayers ==
    /\ InitCache /\ disk = NoFile /\ token = FALSE
    /\ InitPipelineIdle
    /\ InitUploadIdle
    /\ rows = <<>>
    /\ rendered = <<>>
    /\ heap = <<>>
    /\ arg \in {[kind |-> "layer", features |-> f] : f \in LayerInputs}
    /\ ret = NotCalled

NextLayers == AppEpciLayer \/ GmEpciLayer \/ AppIndicatorLayer \/ GmIndicatorLayer

SpecLayers == InitLayers /\ [][NextLayers]_vars

\* The values of the features that went into the layer, in file order.
LayerValues ==
    LET fs == IF ret.attr = "qpv_count" THEN filtered_epci(arg.features)
              ELSE valid_features(arg.features, ret.attr)
    IN  [i \in DOMAIN fs |->
           IF ret.attr = "qpv_count" THEN Num(fs[i].properties.qpv_count)
           ELSE fs[i].properties[ret.attr]]

\* C21: a layer that is made has, for i = 1..6, the breakpoint
\* sorted(values)[min(floor(n*i/7), n-1)]; floor(n*i/7) is below n, so that
\* the layers without min() raise nothing and get the same breakpoints.
C21_QuantileBreaks ==
    (ret.fn # "none" /\ LayerValues # <<>>) =>
        LET s == sorted(LayerValues)
            n == Len(s)
        IN  /\ ~ret.raised /\ ret.created
            /\ Len(ret.breaks) = 6
            /\ \A i \in 1..6 :
                 /\ (n * i) \div 7 <= n - 1
                 /\ ret.breaks[i] = s[Min((n * i) \div 7, n - 1) + 1]
            /\ quantile_breaks_ch(s) = quantile_breaks(s)

\* A layer without min() of one value, and one of more values than bins.
C21_Witness ==
    /\ ret.fn = "gm_indicator_layer"
    /\ ret.created
    /\ \/ Len(ret.values) = 1
       \/ /\ Len(ret.values) = 8
          /\ ret.breaks = <<Num(2), Num(2), Num(3), Num(3), Num(4), Num(4)>>

\* The lists that hold the values of vs in another order.
Reordered(vs) ==
    { [i \in DOMAIN vs |-> vs[p[i]]] :
        p \in {q \in [DOMAIN vs -> DOMAIN vs] : \A i, j \in DOMAIN vs : q[i] = q[j] => i = j} }

\* C22: a layer of n >= 1 values has 6 breakpoints, in non-decreasing
\* order, and the same ones for the same values in any other order.
C22_SixOrderedBreaks ==
    (ret.fn # "none" /\ LayerValues # <<>> /\ Len(LayerValues) <= MaxValues) =>
        /\ ~ret.raised
        /\ Len(ret.breaks) = bin_count - 1
        /\ \A i, j \in DOMAIN ret.breaks : i <= j => Leq(ret.breaks[i], ret.breaks[j])
        /\ \A vs \in Reordered(LayerValues) :
             quantile_breaks_ch(sorted(vs)).breaks = ret.breaks

\* Values below, between and above the breakpoints, and NaN.
Probes == {Num(n) : n \in 0..6} \cup {NaN}

\* C23: for the breakpoints of a layer and every value, the index is that
\* of the first breakpoint the value does not exceed, the last bin if there
\* is none; the three forms of the search give it, and it is within 0..6.
C23_SameBin ==
    ret.fn # "none" /\ ret.created =>
        \A v \in Probes :
            LET hits == {i \in DOMAIN ret.breaks : Leq(v, ret.breaks[i])}
                bin == IF hits = {} THEN 6
                       ELSE (CHOOSE i \in hits : \A j \in hits : i <= j) - 1
            IN  /\ get_color_idx(ret.breaks, v) = bin
                /\ style_idx(ret.breaks, v) = bin
                /\ next_idx(ret.breaks, v) = bin
                /\ bin \in 0..6

\* Six breakpoints of which 3 is the third and the fourth: 3 is in bin 2,
\* 6 in the last bin; and breakpoints that are all the same.
C23_Witness ==
    /\ ret.fn = "app_indicator_layer"
    /\ ret.created
    /\ \/ /\ ret.breaks = <<Num(2), Num(2), Num(3), Num(3), Num(4), Num(4)>>
          /\ style_idx(ret.breaks, Num(3)) = 2
          /\ style_idx(ret.breaks, Num(6)) = 6
       \/ /\ ret.breaks = [i \in 1..6 |-> Num(2)]
          /\ style_idx(ret.breaks, Num(2)) = 0

\* C24: a feature of a layer whose classified attribute is missing, None
\* or NaN has the no-data colour, which is none of the colours of the bins.
C24_NoDataColour ==
    /\ ret.fn # "none" /\ ret.created =>
         \A i \in DOMAIN ret.shown :
             LET props == ret.shown[i].properties
                 undefined == IF ret.attr = "qpv_count" THEN "qpv_count" \notin DOMAIN props
                              ELSE \/ DictGet(props, ret.attr) = PyNone
                                   \/ DictGet(props, ret.attr) = NaN
             IN  undefined => ret.styles[i] = no_data_color
    /\ \A palette \in {colors, colors_blue, colors_orange, colors_purple, colors_green} :
         \A i \in DOMAIN palette : palette[i] # no_data_color

----------------------------------------------------------------------------
(* Markers and categories *)

\* "Formation : 1ier deg"
CAT_1 ==
    <<"F", "o", "r", "m", "a", "t", "i", "o", "n", " ", ":", " ", "1", "i",
      "e", "r", " ", "d", "e", "g">>

\* "Formation : College"
CAT_2 ==
    <<"F", "o", "r", "m", "a", "t", "i", "o", "n", " ", ":", " ", "C", "o",
      "l", "l", "e", "g", "e">>

\* "Formation : Lycee pro"
CAT_3 ==
    <<"F", "o", "r", "m", "a", "t", "i", "o", "n", " ", ":", " ", "L", "y",
      "c", "e", "e", " ", "p", "r", "o">>

\* "Formation : Lycee pro agricole"
CAT_4 ==
    <<"F", "o", "r", "m", "a", "t", "i", "o", "n", " ", ":", " ", "L", "y",
      "c", "e", "e", " ", "p", "r", "o", " ", "a", "g", "r", "i", "c", "o",
      "l", "e">>

\* "Formation : Post-bac"
CAT_5 ==
    <<"F", "o", "r", "m", "a", "t", "i", "o", "n", " ", ":", " ", "P", "o",
      "s", "t", "-", "b", "a", "c">>

\* "Protection de l'enfance : MECs MNA"
CAT_6 ==
    <<"P", "r", "o", "t", "e", "c", "t", "i", "o", "n", " ", "d", "e", " ",
      "l", "'", "e", "n", "f", "a", "n", "c", "e", " ", ":", " ", "M", "E",
      "C", "s", " ", "M", "N", "A">>

\* "Protection de l'enfance : MECs Fratrie"
CAT_7 ==
    <<"P", "r", "o", "t", "e", "c", "t", "i", "o", "n", " ", "d", "e", " ",
      "l", "'", "e", "n", "f", "a", "n", "c", "e", " ", ":", " ", "M", "E",
      "C", "s", " ", "F", "r", "a", "t", "r", "i", "e">>

\* "Protection de l'enfance : MECs AEMO"
CAT_8 ==
    <<"P", "r", "o", "t", "e", "c", "t", "i", "o", "n", " ", "d", "e", " ",
      "l", "'", "e", "n", "f", "a", "n", "c", "e", " ", ":", " ", "M", "E",
      "C", "s", " ", "A", "E", "M", "O">>

\* "Protection de l'enfance : MECs Semi autnomie"
CAT_9 ==
    <<"P", "r", "o", "t", "e", "c", "t", "i", "o", "n", " ", "d", "e", " ",
      "l", "'", "e", "n", "f", "a", "n", "c", "e", " ", ":", " ", "M", "E",
      "C", "s", " ", "S", "e", "m", "i", " ", "a", "u", "t", "n", "o", "m",
      "i", "e">>

\* "Insertion: Dispo insertion"
CAT_10 ==
    <<"I", "n", "s", "e", "r", "t", "i", "o", "n", ":", " ", "D", "i", "s",
      "p", "o", " ", "i", "n", "s", "e", "r", "t", "i", "o", "n">>

\* "Inserttion : IAE"
CAT_11 ==
    <<"I", "n", "s", "e", "r", "t", "t", "i", "o", "n", " ", ":", " ", "I",
      "A", "E">>

\* "Parentialité : Maison des familles"
CAT_12 ==
    <<"P", "a", "r", "e", "n", "t", "i", "a", "l", "i", "t", "é", " ", ":",
      " ", "M", "a", "i", "s", "o", "n", " ", "d", "e", "s", " ", "f", "a",
      "m", "i", "l", "l", "e", "s">>

\* "Parentalité : Creches"
CAT_13 ==
    <<"P", "a", "r", "e", "n", "t", "a", "l", "i", "t", "é", " ", ":", " ",
      "C", "r", "e", "c", "h", "e", "s">>

\* "Parentalité : Autres dispositifs parentalité"
CAT_14 ==
    <<"P", "a", "r", "e", "n", "t", "a", "l", "i", "t", "é", " ", ":", " ",
      "A", "u", "t", "r", "e", "s", " ", "d", "i", "s", "p", "o", "s", "i",
      "t", "i", "f", "s", " ", "p", "a", "r", "e", "n", "t", "a", "l", "i",
      "t", "é">>

\* app.py 775-797
CATEGORY_COLORS ==
    CAT_1 :> "#1e90ff"
    @@ CAT_2 :> "#4169e1"
    @@ CAT_3 :> "#0000cd"
    @@ CAT_4 :> "#00008b"
    @@ CAT_5 :> "#191970"
    @@ CAT_6 :> "#ff6347"
    @@ CAT_7 :> "#dc143c"
    @@ CAT_8 :> "#b22222"
    @@ CAT_9 :> "#8b0000"
    @@ CAT_10 :> "#32cd32"
    @@ CAT_11 :> "#228b22"
    @@ CAT_12 :> "#9370db"
    @@ CAT_13 :> "#8a2be2"
    @@ CAT_14 :> "#4b0082"

\* generate_map.py 195-210
gm_CATEGORY_COLORS ==
    CAT_1 :> "#74b9ff"
    @@ CAT_2 :> "#0984e3"
    @@ CAT_3 :> "#0652DD"
    @@ CAT_4 :> "#1B1464"
    @@ CAT_5 :> "#0c2461"
    @@ CAT_6 :> "#ff7675"
    @@ CAT_7 :> "#d63031"
    @@ CAT_8 :> "#b71540"
    @@ CAT_9 :> "#6F1E51"
    @@ CAT_10 :> "#a29bfe"
    @@ CAT_11 :> "#6c5ce7"
    @@ CAT_12 :> "#55efc4"
    @@ CAT_13 :> "#00b894"
    @@ CAT_14 :> "#006266"

\* generate_map.py 212-218
gm_MAIN_CATEGORY_COLORS ==
    [Formation |-> "#0984e3", Protection |-> "#d63031", Insertion |-> "#6c5ce7",
     Parentalite |-> "#00b894", Autre |-> "#636e72"]

\* pd.isna(categorie): the cell of a row without category.
pd_isna(categorie) == categorie \in NotAString

\* app.py 807-811
get_marker_color(categorie) ==
    IF pd_isna(categorie) \/ categorie = <<>> THEN "#808080"
    ELSE IF categorie \in DOMAIN CATEGORY_COLORS THEN CATEGORY_COLORS[categorie]
    ELSE "#808080"

\* The main category of generate_map.py on the dashboard's strings.
get_main_category_lower(categorie) ==
    IF pd_isna(categorie) \/ categorie = <<>> THEN "Inconnu"
    ELSE IF contains(lower(categorie), <<"f", "o", "r", "m", "a", "t", "i", "o", "n">>) THEN "Formation"
    ELSE IF contains(lower(categorie), <<"p", "r", "o", "t", "e", "c", "t", "i", "o", "n">>) THEN "Protection"
    ELSE IF contains(lower(categorie), <<"i", "n", "s", "e", "r", "t", "i", "o", "n">>) THEN "Insertion"
    ELSE IF contains(lower(categorie), <<"p", "a", "r", "e", "n", "t">>) THEN "Parentalite"
    ELSE "Inconnu"

\* app.py 825-837; "Protection" stands for "Protection de l'enfance" and
\* "Parentalite" for the accented label.
get_main_category(categorie) ==
    IF pd_isna(categorie) \/ categorie = <<>> THEN "Inconnu"
    ELSE IF contains(categorie, <<"F", "o", "r", "m", "a", "t", "i", "o", "n">>) THEN "Formation"
    ELSE IF contains(categorie, <<"P", "r", "o", "t", "e", "c", "t", "i", "o", "n">>) THEN "Protection"
    ELSE IF \/ contains(categorie, <<"I", "n", "s", "e", "r", "t", "i", "o", "n">>)
            \/ contains(categorie, <<"I", "n", "s", "e", "r", "t", "t", "i", "o", "n">>) THEN "Insertion"
    ELSE IF \/ contains(categorie, <<"P", "a", "r", "e", "n", "t", "a", "l">>)
            \/ contains(categorie, <<"P", "a", "r", "e", "n", "t">>) THEN "Parentalite"
    ELSE "Inconnu"

\* generate_map.py 179-192; NaN is true and has no lower(): AttributeError.
gm_get_main_category(categorie) ==
    IF categorie = <<>> \/ categorie = None THEN "Autre"
    ELSE IF pd_isna(categorie) THEN "AttributeError"
    ELSE IF contains(lower(categorie), <<"f", "o", "r", "m", "a", "t", "i", "o", "n">>) THEN "Formation"
    ELSE IF contains(lower(categorie), <<"p", "r", "o", "t", "e", "c", "t", "i", "o", "n">>) THEN "Protection"
    ELSE IF contains(lower(categorie), <<"i", "n", "s", "e", "r", "t", "i", "o", "n">>) THEN "Insertion"
    ELSE IF contains(lower(categorie), <<"p", "a", "r", "e", "n", "t">>) THEN "Parentalite"
    ELSE "Autre"

\* generate_map.py 220-225
gm_get_marker_color(categorie) ==
    IF categorie \in DOMAIN gm_CATEGORY_COLORS THEN gm_CATEGORY_COLORS[categorie]
    ELSE LET main_cat == gm_get_main_category(categorie)
         IN  IF main_cat \in DOMAIN gm_MAIN_CATEGORY_COLORS
             THEN gm_MAIN_CATEGORY_COLORS[main_cat]
             ELSE "#636e72"

\* Category cells: three of the known strings, an unknown one, the empty
\* string and the missing cell.
SPORT == <<"S", "p", "o", "r", "t">>

Cells == {CAT_2, CAT_11, CAT_13, SPORT, <<>>, <<"nan">>}

\* Rows in and out of the bounds, with a category.
CategoryRows ==
    { [lat |-> Num(y), lng |-> Num(2), categorie |-> c] : y \in {46, 53}, c \in Cells }

\* The session table: its rows, and whether it has the column 'categorie'
\* (the cells of a table without it are not read).
CategoryTables ==
    { [kind |-> "table", has_categorie |-> TRUE, rows |-> r] :
        r \in SeqsUpTo(CategoryRows, MaxRows) }
    \cup { [kind |-> "table", has_categorie |-> FALSE, rows |-> r] :
             r \in SeqsUpTo({x \in CategoryRows : x.categorie = <<>>}, MaxRows) }

\* app.py 1511: row.get('categorie', '') if 'categorie' in row.index else ''
CategoryOf(t, row) == IF t.has_categorie THEN row.categorie ELSE <<>>

\* df['categorie'].apply(get_main_category).value_counts()
value_counts(cats) ==
    [c \in {cats[i] : i \in DOMAIN cats} |->
        Cardinality({i \in DOMAIN cats : cats[i] = c})]

\* app.py 977-983, 1057-1069, 1501-1558: one run of the dashboard script on
\* the session table: the filter, the sidebar counts, the markers.
RenderMarkers ==
    /\ arg.kind = "table"
    /\ LET in_box == MainlandFilter(arg.rows)
       IN  ret' = [fn |-> "app",
                   raised |-> FALSE,
                   df |-> in_box,
                   cat_counts |->
                       IF arg.has_categorie
                       THEN value_counts([i \in DOMAIN in_box |->
                                            get_main_category(in_box[i].categorie)])
                       ELSE << >>,
                   markers |->
                       [i \in DOMAIN in_box |->
                          [lat |-> in_box[i].lat, lng |-> in_box[i].lng,
                           main_cat |-> get_main_category(CategoryOf(arg, in_box[i])),
                           marker_color |-> get_marker_color(CategoryOf(arg, in_box[i]))]]]
    /\ UNCHANGED <<cacheVars, pipelineVars, uploadVars, rows, rendered, arg, heap>>

\* generate_map.py 240, 496-526: the filter and the markers of the generator;
\* an exception ends the run without a map.
GmRenderMarkers ==
    /\ arg.kind = "table"
    /\ LET in_box == GmMainlandFilter(arg.rows)
           raises == \E i \in DOMAIN in_box :
                        gm_get_main_category(CategoryOf(arg, in_box[i])) = "AttributeError"
       IN  ret' = [fn |-> "generate_map",
                   raised |-> raises,
                   df |-> in_box,
                   cat_counts |-> << >>,
                   markers |->
                       IF raises THEN << >>
                       ELSE [i \in DOMAIN in_box |->
                               [lat |-> in_box[i].lat, lng |-> in_box[i].lng,
                                main_cat |-> gm_get_main_category(CategoryOf(arg, in_box[i])),
                                marker_color |-> gm_get_marker_color(CategoryOf(arg, in_box[i]))]]]
    /\ UNCHANGED <<cacheVars, pipelineVars, uploadVars, rows, rendered, arg, heap>>

\* get_main_category(arg.categorie) in the dashboard and in the generator
CallGetMainCategory ==
    /\ arg.kind = "categorie"
    /\ ret' = [fn |-> "get_main_category",
               app |-> get_main_category(arg.categorie),
               gm |-> gm_get_main_category(arg.categorie)]
    /\ UNCHANGED <<cacheVars, pipelineVars, uploadVars, rows, rendered, arg, heap>>

InitMarkers ==
    /\ InitCache /\ disk = NoFile /\ token = FALSE
    /\ InitPipelineIdle
    /\ InitUploadIdle
    /\ rows = <<>>
    /\ rendered = <<>>
    /\ heap = <<>>
    /\ arg \in CategoryTables
              \cup {[kind |-> "categorie", categorie |-> c] :
                      c \in DOMAIN CATEGORY_COLORS \cup Cells}
    /\ ret = NotCalled

NextMarkers == RenderMarkers \/ GmRenderMarkers \/ CallGetMainCategory

SpecMarkers == InitMarkers /\ [][NextMarkers]_vars

\* The main category of the known strings and of the other cells.
MainCategoryOf(c) ==
    IF c \in {CAT_1, CAT_2, CAT_3, CAT_4, CAT_5} THEN "Formation"
    ELSE IF c \in {CAT_6, CAT_7, CAT_8, CAT_9} THEN "Protection"
    ELSE IF c \in {CAT_10, CAT_11} THEN "Insertion"
    ELSE IF c \in {CAT_12, CAT_13, CAT_14} THEN "Parentalite"
    ELSE "Inconnu"

RECURSIVE SumOf(_, _)
SumOf(f, S) ==
    IF S = {} THEN 0
    ELSE LET c == CHOOSE x \in S : TRUE IN f[c] + SumOf(f, S \ {c})

\* The rows of the table that are within the bounds, bounds included.
InBounds ==
    SelectSeq(arg.rows, LAMBDA r : /\ r.lat.v >= 41 /\ r.lat.v <= 52
                                   /\ r.lng.v >= -6 /\ r.lng.v <= 10)

\* One marker for each row within the bounds, in its place and of the
\* colour of its category cell, grey for a cell that is no known category.
OneMarkerEach(cell(_)) ==
    /\ Len(ret.markers) = Len(InBounds)
    /\ \A i \in DOMAIN InBounds :
         /\ ret.markers[i].lat = InBounds[i].lat
         /\ ret.markers[i].lng = InBounds[i].lng
         /\ ret.markers[i].marker_color =
              IF cell(InBounds[i]) \in DOMAIN CATEGORY_COLORS
              THEN CATEGORY_COLORS[cell(InBounds[i])] ELSE "#808080"

\* The sidebar counts every row within the bounds under its main category.
CountedOnce ==
    /\ \A c \in {"Formation", "Protection", "Insertion", "Parentalite", "Inconnu"} :
         LET n == Cardinality({i \in DOMAIN InBounds :
                                 MainCategoryOf(InBounds[i].categorie) = c})
         IN  IF n = 0 THEN c \notin DOMAIN ret.cat_counts
             ELSE c \in DOMAIN ret.cat_counts /\ ret.cat_counts[c] = n
    /\ SumOf(ret.cat_counts, DOMAIN ret.cat_counts) = Len(ret.markers)

C30_SameMainCategory ==
    (ret.fn = "get_main_category" /\ arg.categorie \in DOMAIN CATEGORY_COLORS) =>
        ret.app = ret.gm

----------------------------------------------------------------------------
(* One session and a cache file that another process writes *)

\* The key of the other writer: one the session never looks up.
OtherKey == AllKeys[NKeys + 1]

\* The caches the other writer may hold: its own key and any of the keys of
\* the session, each with the polygon the service answered to it.
OtherCaches ==
    { [k \in D \cup {OtherKey} |-> CHOOSE c \in CoordsFor(k) : TRUE] :
        D \in SUBSET Keys }

\* Another session or process running app.py saves its own cache
\* (app.py 53-63, from 855 or 901) or removes the file (1045-1046);
\* heap.other is the cache that writer holds.
ExternalChange(f) ==
    /\ \A t \in Sessions : ~lk[t].run
    /\ f # disk
    /\ disk' = f
    /\ heap' = [other |-> LoadFrom(f).val]
    /\ last' = Quiet("external", "")
    /\ UNCHANGED <<token, live, mem, lk, pipelineVars, uploadVars, rows, rendered, arg, ret>>

InitShared ==
    /\ InitCache
    /\ disk = NoFile
    /\ token = TRUE
    /\ InitPipelineIdle
    /\ InitUploadIdle
    /\ rows = <<>>
    /\ rendered = <<>>
    /\ arg = <<>>
    /\ ret = <<>>
    /\ heap = [other |-> EmptyCache]

NextShared ==
    \/ StartSession("A")
    \/ Rerun("A")
    \/ \E k \in Keys : GetIsochrone("A", k)
    \/ Attempt("A")
    \/ ClearCache("A")
    \/ \E f \in {NoFile} \cup { File(json_dump(c)) : c \in OtherCaches } :
          ExternalChange(f)

SpecShared == InitShared /\ [][NextShared]_vars

\* C26: the keys on disk after a put whose write succeeded are the keys
\* that were on disk immediately before it and the key put, also when
\* another writer has added entries to the file since the session loaded it.
C26_PutKeepsDiskKeys ==
    [][ (last'.op = "fetched" /\ last'.saved) =>
           (DOMAIN OnDisk \cup {last'.key}) \subseteq DOMAIN LoadFrom(disk').val
      ]_vars

\* The keys held by the file only.
DiskOnly(m) == DOMAIN OnDisk \ DOMAIN m

\* Memory and file hold as many entries, under different keys.
Diverged(m) == Count(m) = Count(OnDisk) /\ DOMAIN m # DOMAIN OnDisk

\* C27: when memory and file hold as many entries under different keys, a
\* reconciliation changes neither side, and a put whose write succeeds
\* leaves in the file the memory content with the entry put and nothing of
\* what the file held: a key that was on disk only, unless it is the key
\* fetched anew, is then neither on disk nor in memory.
C27_EqualSizeDivergence ==
    [][ Diverged(mem["A"]) =>
          /\ last'.op \in SyncOps =>
                last'.op = "in_sync" /\ mem' = mem /\ disk' = disk
          /\ (last'.op = "fetched" /\ last'.saved) =>
                /\ mem'["A"] = cache_put(mem["A"], last'.key, last'.val)
                /\ LoadFrom(disk').val = mem'["A"]
                /\ \A k \in DiskOnly(mem["A"]) \ {last'.key} :
                      /\ k \notin DOMAIN LoadFrom(disk').val
                      /\ k \notin DOMAIN mem'["A"]
      ]_vars

\* The other writer saved a cache as large as the session's, with a key the
\* session did not hold; the session then fetched another key and saved:
\* the other writer's key is neither on disk nor in the session's memory.
C27_Witness ==
    /\ last.op = "fetched"
    /\ last.saved
    /\ Count(heap.other) = Count(mem["A"]) - 1
    /\ OnDisk = mem["A"]
    /\ \E k \in DOMAIN heap.other : k \notin DOMAIN OnDisk

\* C28: but for the cache clear, no rerun, put or change of the file makes
\* the session's memory cache smaller: a reconciliation replaces it only by
\* a disk copy with more entries, and a put adds or overwrites one key.
C28_MemoryNeverShrinks ==
    [][ LET m == mem["A"]
        IN  /\ last'.op # "clear" => Count(mem'["A"]) >= Count(m)
            /\ (last'.op \in SyncOps /\ mem'["A"] # m) =>
                  /\ mem'["A"] = OnDisk
                  /\ Count(OnDisk) > Count(m)
            /\ last'.op = "fetched" =>
                  /\ DOMAIN mem'["A"] = DOMAIN m \cup {last'.key}
                  /\ \A k \in DOMAIN m \ {last'.key} : mem'["A"][k] = m[k]
            /\ last'.op = "external" => mem'["A"] = m
      ]_vars

\* The other writer left a file with fewer entries than the session holds,
\* under another key, and the session reran: its memory is kept and saved.
C28_Witness ==
    /\ last.op = "synced"
    /\ Count(heap.other) > 0
    /\ Count(heap.other) < Count(mem["A"])
    /\ \E k \in DOMAIN heap.other : k \notin DOMAIN mem["A"]

----------------------------------------------------------------------------
(* The mainland test at load time and at render time *)

\* C29: every feature load_epci_geojson retains, with its coordinates
\* rounded to 3 decimals, passes is_mainland_epci when the layers are
\* built: the layers show every feature loaded.
C29_RenderKeepsLoaded ==
    ret.fn = "layer" => ret.shown = ret.features

=============================================================================
